---------------------------- MODULE Spec2Model ----------------------------
(***************************************************************************)
(* rrlib_time: the time-mode state machine, the Parameter Store (two pairs *)
(* of 64-bit atomic words carrying a 12-bit stamp) and the listener        *)
(* registry, modelled from time.cpp, tAtomicTimestamp.h and                *)
(* tTimeStretchingListener.cpp.                                            *)
(*                                                                         *)
(* Mutating threads run SetTimeSource / SetTimeStretching /                *)
(* SetApplicationTime and the listener constructor / destructor, which     *)
(* take the global lock; reader threads run Now().  Every access to a      *)
(* std::atomic is a step of its own, so that a reader can interleave       *)
(* between any two stores of a writer.  The variables pc, call, pre,       *)
(* local, events and result are those of the mutating thread self that is  *)
(* scheduled; parked holds them for the other mutating threads.            *)
(*                                                                         *)
(* TLC integers are 32 bits wide, so a 64-bit word of the store is kept as *)
(* its three fields (12-bit stamp, 20-bit scale, 32-bit low part), and a   *)
(* 32-bit part as two 16-bit limbs.  Times are nanosecond counts.          *)
(***************************************************************************)
EXTENDS Integers, Sequences, FiniteSets, TLC

\* ------------------------------------------------------------------ bounds

\* system time runs from application_start to MaxSysTime
MaxSysTime == 2

\* number of StoreParameters calls in one behaviour
MaxStores == 2

\* ------------------------------------------------------- program constants

cNUMERATOR_MASK == 1048575

cSTAMP_MASK == 4095

MaxScale == 1000000

\* value of tBaseClock::now() when the static initializer of
\* application_start ran (mode is SYSTEM_TIME then, so Now() is system time)
application_start == 1

Limb == 2 ^ 16

\* ------------------------------------------------------------ input sets

Readers == {"r1"}

\* the threads that call the mutating operations
Mutators == {"w", "m"}

Threads == Readers \cup Mutators

Clocks == {"c1", "c2"}

NULL == "NULL"

AllListeners == {"L1", "L2"}

\* initial_time / new_time arguments: before application_start, and ahead of
\* every system time of the model
CustomTimes == {0, 5}

\* (numerator, denominator) arguments; the last four are out of range
StretchArgs == {<<1, 1>>, <<2, 1>>, <<3, 1>>, <<4, 2>>, <<1, 2>>,
                <<0, 1>>, <<1, 1000001>>, <<1, 0>>, <<1000001, 1>>}

\* the arguments of the calls that run against readers
ConcStretchArgs == {<<2, 1>>, <<1, 2>>}

ConcClocks == {"c1"}

\* the listeners of the runs with several mutating threads
LockListeners == {"L1"}

\* app_duration arguments of ToSystemDuration, as counts of the model
SmallDurations == {-10, 0, 7, 10}

\* --------------------------------------------------- 64-bit word arithmetic

\* the low and the high 32 bits of the int64 d (two's complement), each as
\* <<high limb, low limb>>; d is within the 32-bit range here, so bits 32..63
\* are the sign
Low32(d) == <<(d \div Limb) % Limb, d % Limb>>

High32(d) == IF d < 0 THEN <<Limb - 1, Limb - 1>> ELSE <<0, 0>>

\* the int64 whose high 32 bits are hi and whose low 32 bits are lo
\* ((longs[0] << 32) | (longs[1] & 0xFFFFFFFF)); ok is FALSE for a value
\* outside the 32-bit range the model computes with
ToInt64(hi, lo) ==
  IF hi = <<0, 0>> /\ lo[1] < Limb \div 2
  THEN [ok |-> TRUE, v |-> lo[1] * Limb + lo[2]]
  ELSE IF hi = <<Limb - 1, Limb - 1>> /\ lo[1] >= Limb \div 2
       THEN [ok |-> TRUE, v |-> (lo[1] - Limb) * Limb + lo[2]]
       ELSE [ok |-> FALSE, v |-> 0]

\* int64 / int64 of C++: truncation towards zero
TruncDiv(a, b) == IF a >= 0 THEN a \div b ELSE -((-a) \div b)

\* a word: bits 52..63, bits 32..51, bits 0..31; pub is history: the number
\* of the StoreParameters call that built the word (0: the initial value)
Word(stamp, scale, low, pub) == [stamp |-> stamp, scale |-> scale, low |-> low, pub |-> pub]

Bits(w) == <<w.stamp, w.scale, w.low>>

\* 1LL << 32
InitialWord == Word(0, 1, <<0, 0>>, 0)

\* tParameterStoreHelper::GetStamp
GetStamp(h0, h1) == IF h0.stamp = h1.stamp THEN h0.stamp ELSE -1

\* LogicalAndMask of x >> 52: of the stamp alone
LogicalAndMaskOfStamp(w) == IF w.stamp # 0 /\ cNUMERATOR_MASK # 0 THEN 1 ELSE 0

\* (x >> 32) && cNUMERATOR_MASK for the word x: the logical AND of two
\* integers, 1 when both are non-zero and 0 otherwise
LogicalAndMask(w) == IF (w.stamp # 0 \/ w.scale # 0) /\ cNUMERATOR_MASK # 0 THEN 1 ELSE 0

\* the three assignments that end LoadParameters; exact is FALSE when
\* time_diff is outside the range the model computes with
Decode(h0, h1) ==
  [time_scaling_numerator |-> LogicalAndMask(h0),
   time_scaling_denominator |-> LogicalAndMask(h1),
   time_diff |-> ToInt64(h0.low, h1.low).v,
   exact |-> ToInt64(h0.low, h1.low).ok]

\* helper.longs[0] of StoreParameters: counter << 52 | numerator << 32 |
\* diff >> 32.  diff >> 32 of a negative diff is sign-extended, so its bits
\* 32..63 are all ones and the OR fills the stamp and the scale field
StoreWord0(cnt, params, pub) ==
  IF params.time_diff < 0
  THEN Word(cSTAMP_MASK, cNUMERATOR_MASK, High32(params.time_diff), pub)
  ELSE Word(cnt, params.time_scaling_numerator, High32(params.time_diff), pub)

\* helper.longs[1] of StoreParameters: counter << 52 | denominator << 32 |
\* diff & 0xFFFFFFFF
StoreWord1(cnt, params, pub) ==
  Word(cnt, params.time_scaling_denominator, Low32(params.time_diff), pub)

\* counter = (counter + 1) & cSTAMP_MASK
NextCounter(cnt) == (cnt + 1) % (cSTAMP_MASK + 1)

\* tAtomicTimestamp::Store and Load: the int64 count of the time stamp
AtomicStore(timestamp) == timestamp

AtomicLoad(wrapped) == wrapped

\* the STRETCHED_SYSTEM_TIME case of ToApplicationTime, after LoadParameters
Stretch(params, system_time) ==
  application_start
    + TruncDiv((system_time - application_start) - params.time_diff,
               params.time_scaling_denominator) * params.time_scaling_numerator

\* new_factor != old_factor and new_factor > old_factor on doubles: for
\* operands up to 1000000 the quotients of two different ratios differ by
\* far more than one ulp, so the comparison of the doubles is the comparison
\* of the ratios
FactorDiffers(n1, d1, n2, d2) == n1 * d2 # n2 * d1

FactorGreater(n1, d1, n2, d2) == n1 * d2 > n2 * d1

\* the parameter check that opens SetTimeStretching
InRangeNumeratorOnly(numerator, denominator) == numerator >= 1 /\ numerator <= MaxScale

\* the parameter check of SetTimeStretching
InRange(numerator, denominator) ==
  ~(numerator <= 0 \/ numerator > MaxScale \/ denominator <= 0 \/ denominator > MaxScale)


\* -------------------------------------------------- 64-bit duration counts

\* The count of a tDuration handed to ToSystemDuration is an int64_t; it is
\* kept as its sign and its magnitude in NumDigits digits of DigitBits bits,
\* the least significant first, so that a product with a 20-bit scale stays
\* within TLC's integers.
DigitBits == 11

Digit == 2 ^ DigitBits

NumDigits == 8

\* the digits of the natural number k < 2 ^ 31
RECURSIVE DigitsOf(_, _)
DigitsOf(k, len) == IF len = 0 THEN <<>> ELSE <<k % Digit>> \o DigitsOf(k \div Digit, len - 1)

IsZero(mag) == \A i \in 1..Len(mag) : mag[i] = 0

\* tDuration(k) for an int k of the model
ToDuration(k) == [neg |-> k < 0, mag |-> DigitsOf(IF k < 0 THEN -k ELSE k, NumDigits)]

\* mag * m + carry for 0 <= m <= MaxScale, digit by digit; the digits that
\* do not fit NumDigits are dropped (there are none for a mag below 2 ^ 66)
RECURSIVE MulDigits(_, _, _)
MulDigits(mag, m, carry) ==
  IF mag = <<>> THEN <<>>
  ELSE <<(Head(mag) * m + carry) % Digit>>
         \o MulDigits(Tail(mag), m, (Head(mag) * m + carry) \div Digit)

\* mag \div d for 1 <= d <= MaxScale, from the most significant digit down;
\* rem is the remainder carried into the digits of mag
RECURSIVE DivDigits(_, _, _)
DivDigits(mag, d, rem) ==
  IF mag = <<>> THEN <<>>
  ELSE LET top == mag[Len(mag)]
           cur == rem * Digit + top
       IN  DivDigits(SubSeq(mag, 1, Len(mag) - 1), d, cur % d) \o <<cur \div d>>

\* whether mag fits an int64_t: mag <= 2 ^ 63 - 1 (2 ^ 63 for a negative
\* count); 63 = 5 * DigitBits + 8
FitsInt64(neg, mag) ==
  /\ \A i \in 7..Len(mag) : mag[i] = 0
  /\ \/ mag[6] < 2 ^ 8
     \/ neg /\ mag[6] = 2 ^ 8 /\ \A i \in 1..5 : mag[i] = 0

\* count * multiplier in int64_t: defined is FALSE where the product
\* overflows (undefined behaviour)
Multiply(count, multiplier) ==
  LET mag == MulDigits(count.mag, multiplier, 0)
  IN  [defined |-> FitsInt64(count.neg, mag),
       v |-> [neg |-> count.neg /\ ~IsZero(mag), mag |-> mag]]

\* count / divisor in int64_t (truncation towards zero)
Divide(count, divisor) ==
  LET mag == DivDigits(count.mag, divisor, 0)
  IN  [neg |-> count.neg /\ ~IsZero(mag), mag |-> mag]

\* (app_duration.count() >> 44) == 0, with 44 = 4 * DigitBits: the count is
\* in 0 .. 2 ^ 44 - 1 (the shift of a negative count is negative)
TakesMultiplyFirst(count) == ~count.neg /\ \A i \in 5..Len(count.mag) : count.mag[i] = 0

\* (app_duration.count() * numerator) / denominator
MultiplyFirst(count, numerator, denominator) ==
  [defined |-> Multiply(count, numerator).defined,
   v |-> Divide(Multiply(count, numerator).v, denominator)]

\* (app_duration.count() / denominator) * numerator
DivideFirst(count, numerator, denominator) == Multiply(Divide(count, denominator), numerator)

\* 2 ^ 44 - 1, 2 ^ 44 and -1 * 2 ^ 44: the counts around the branch of
\* ToSystemDuration
LargeDurations ==
  {[neg |-> FALSE, mag |-> <<Digit - 1, Digit - 1, Digit - 1, Digit - 1, 0, 0, 0, 0>>],
   [neg |-> FALSE, mag |-> <<0, 0, 0, 0, 1, 0, 0, 0>>],
   [neg |-> TRUE, mag |-> <<0, 0, 0, 0, 1, 0, 0, 0>>]}

Durations == {ToDuration(k) : k \in SmallDurations} \cup LargeDurations

\* ------------------------------------------------------------------- state

VARIABLES
  mode,                              \* static std::atomic<int> mode
  time_stretching_parameters1,       \* the primary pair
  time_stretching_parameters2,
  time_stretching_parameters1_copy,  \* the copy pair
  time_stretching_parameters2_copy,
  counter,                           \* static counter of StoreParameters
  current_time,                      \* tAtomicTimestamp current_time (wrapped)
  current_clock,                     \* const tCustomClock* current_clock
  listeners,                         \* the vector of tListenersSingleton
  sysclock,                          \* what tBaseClock::now() returns
  pc,                                \* where the mutating thread is
  call,                              \* its current (pc # "idle") or last call
  prev,                              \* the call that returned last, when it was
                                     \* a SetTimeStretching that passed the check
  pre,                               \* the state when call took the lock
  local,                             \* locals of SetTimeStretching
  events,                            \* callbacks made by call, in order
  pubs,                              \* history: StoreParameters calls so far
  pushed,                            \* history: the time of the last call that
                                     \* was to store one (SetTimeSource with a
                                     \* clock, SetApplicationTime of the active
                                     \* clock in CUSTOM_CLOCK mode)
  ld,                                \* per thread: LoadParameters' helper
  rd,                                \* per reader: its Now() call
  result,                            \* what call returns (ToSystemDuration)
  lock,                              \* the std::mutex of tTimeMutex: its owner
  self,                              \* the mutating thread that is scheduled
  parked,                            \* the other mutating threads' positions
  destroyed                          \* the singletons that were torn down

store == <<time_stretching_parameters1, time_stretching_parameters2,
           time_stretching_parameters1_copy, time_stretching_parameters2_copy>>

engine == <<mode, counter, current_time, current_clock, listeners>>

writer == <<pc, call, prev, pre, local, events, pubs, pushed, result>>

sched == <<lock, self, parked, destroyed>>

vars == <<store, engine, sysclock, writer, ld, rd, sched>>

SYSTEM_TIME == "SYSTEM_TIME"

STRETCHED_SYSTEM_TIME == "STRETCHED_SYSTEM_TIME"

CUSTOM_CLOCK == "CUSTOM_CLOCK"

NoCall == [op |-> "none", clock |-> NULL, t |-> 0, n |-> 0, d |-> 0, l |-> NULL,
           app_duration |-> ToDuration(0), s |-> <<>>,
           x |-> [days |-> 0, secs |-> 0, ns |-> 0], gmtoff |-> 0,
           counter |-> 0, time_diff |-> <<0, 0, 0, 0>>]

NoParams == [time_scaling_numerator |-> 0, time_scaling_denominator |-> 0, time_diff |-> 0,
             exact |-> TRUE]

NoLocal == [old |-> NoParams, params |-> NoParams, system_time |-> 0, app_time |-> 0,
            h0 |-> InitialWord, h1 |-> InitialWord]

NoLoad == [at |-> "none", h0 |-> InitialWord, h1 |-> InitialWord]

NoRead == [pc |-> "idle", sys |-> 0, res |-> 0, exact |-> TRUE]

StoreBits == <<Bits(time_stretching_parameters1), Bits(time_stretching_parameters2),
               Bits(time_stretching_parameters1_copy), Bits(time_stretching_parameters2_copy)>>

Snapshot == [mode |-> mode, words |-> StoreBits, current_time |-> current_time,
             current_clock |-> current_clock, listeners |-> listeners]

NoSnapshot == [mode |-> SYSTEM_TIME, words |-> <<>>, current_time |-> 0,
               current_clock |-> NULL, listeners |-> <<>>]

\* a call that returns void
NoResult == [defined |-> TRUE, v |-> ToDuration(0)]

FREE == "free"

\* a mutating thread outside every call
NoContext == [pc |-> "idle", call |-> NoCall, pre |-> NoSnapshot, local |-> NoLocal,
              events |-> <<>>, result |-> NoResult]

\* the parameters of the calls that lead to InitAt(start_counter)
StartParams == [time_scaling_numerator |-> 2, time_scaling_denominator |-> 1, time_diff |-> 0,
                exact |-> TRUE]

\* counter = 0 is the state after construction: the four words are 1LL << 32
\* and the mode is SYSTEM_TIME.  Any other counter is the state that many
\* calls SetTimeStretching(2, 1) later: each of them stores, because
\* LoadParameters yields the factor 1/1 whatever was stored, with time_diff 0
\* (the mode is SYSTEM_TIME, then STRETCHED_SYSTEM_TIME with 1/1 and 0), and
\* the first one sets the mode.
InitAt(start_counter) ==
  /\ counter = start_counter
  /\ mode = IF counter = 0 THEN SYSTEM_TIME ELSE STRETCHED_SYSTEM_TIME
  /\ time_stretching_parameters1 =
       IF counter = 0 THEN InitialWord ELSE StoreWord0(counter, StartParams, 0)
  /\ time_stretching_parameters2 =
       IF counter = 0 THEN InitialWord ELSE StoreWord1(counter, StartParams, 0)
  /\ time_stretching_parameters1_copy = time_stretching_parameters1
  /\ time_stretching_parameters2_copy = time_stretching_parameters2
  /\ current_time = AtomicStore(0)
  /\ current_clock = NULL
  /\ listeners = <<>>
  /\ sysclock = application_start
  /\ pc = "idle"
  /\ call = NoCall
  /\ prev = NoCall
  /\ pre = NoSnapshot
  /\ local = NoLocal
  /\ events = <<>>
  /\ pubs = 0
  /\ pushed = 0
  /\ ld = [t \in Threads |-> NoLoad]
  /\ rd = [r \in Readers |-> NoRead]
  /\ result = NoResult
  /\ lock = FREE
  /\ self = "w"
  /\ parked = [t \in Mutators |-> NoContext]
  /\ destroyed = {}

Init == InitAt(0)

\* the state in which the next stamp wraps to 0
InitWrap == InitAt(cSTAMP_MASK)

\* ------------------------------------------------------------ system clock

Tick ==
  /\ sysclock < MaxSysTime
  /\ sysclock' = sysclock + 1
  /\ UNCHANGED <<store, engine, writer, ld, rd, sched>>

\* ---------------------------------------------------------- LoadParameters

\* one load of the retry loop of LoadParameters, by thread t
LoadStep(t) ==
  LET h == ld[t]
  IN  /\ h.at \in {"p1", "p2", "c1", "c2"}
      /\ ld' = [ld EXCEPT ![t] =
           CASE h.at = "p1" -> [h EXCEPT !.h0 = time_stretching_parameters1, !.at = "p2"]
             [] h.at = "p2" ->
                  [h EXCEPT !.h1 = time_stretching_parameters2,
                            !.at = IF GetStamp(h.h0, time_stretching_parameters2) # -1
                                   THEN "got" ELSE "c1"]
             [] h.at = "c1" -> [h EXCEPT !.h0 = time_stretching_parameters1_copy, !.at = "c2"]
             [] h.at = "c2" ->
                  [h EXCEPT !.h1 = time_stretching_parameters2_copy,
                            !.at = IF GetStamp(h.h0, time_stretching_parameters2_copy) # -1
                                   THEN "got" ELSE "p1"]]

\* LoadParameters run with no store in between: the pair it ends with
LoadParameters ==
  IF GetStamp(time_stretching_parameters1, time_stretching_parameters2) # -1
  THEN [ok |-> TRUE,
        params |-> Decode(time_stretching_parameters1, time_stretching_parameters2)]
  ELSE IF GetStamp(time_stretching_parameters1_copy, time_stretching_parameters2_copy) # -1
       THEN [ok |-> TRUE,
             params |-> Decode(time_stretching_parameters1_copy,
                               time_stretching_parameters2_copy)]
       ELSE [ok |-> FALSE, params |-> NoParams]

\* ToApplicationTime with a custom clock that runs on with system time
ToApplicationTimeExtrapolating(system_time) ==
  CASE mode = SYSTEM_TIME -> [ok |-> TRUE, v |-> system_time]
    [] mode = CUSTOM_CLOCK ->
         [ok |-> TRUE, v |-> AtomicLoad(current_time) + (system_time - application_start)]
    [] mode = STRETCHED_SYSTEM_TIME ->
         IF LoadParameters.ok /\ LoadParameters.params.exact
         THEN [ok |-> TRUE, v |-> Stretch(LoadParameters.params, system_time)]
         ELSE [ok |-> FALSE, v |-> 0]

\* ToApplicationTime that answers from the custom-clock cell in every mode
\* but STRETCHED_SYSTEM_TIME
ToApplicationTimeOfCell(system_time) ==
  CASE mode = SYSTEM_TIME -> [ok |-> TRUE, v |-> AtomicLoad(current_time)]
    [] mode = CUSTOM_CLOCK -> [ok |-> TRUE, v |-> AtomicLoad(current_time)]
    [] mode = STRETCHED_SYSTEM_TIME ->
         IF LoadParameters.ok /\ LoadParameters.params.exact
         THEN [ok |-> TRUE, v |-> Stretch(LoadParameters.params, system_time)]
         ELSE [ok |-> FALSE, v |-> 0]

\* ToApplicationTime(system_time) run with no store in between; ok is FALSE
\* when its LoadParameters does not return
ToApplicationTime(system_time) ==
  CASE mode = SYSTEM_TIME -> [ok |-> TRUE, v |-> system_time]
    [] mode = CUSTOM_CLOCK -> [ok |-> TRUE, v |-> AtomicLoad(current_time)]
    [] mode = STRETCHED_SYSTEM_TIME ->
         IF LoadParameters.ok /\ LoadParameters.params.exact
         THEN [ok |-> TRUE, v |-> Stretch(LoadParameters.params, system_time)]
         ELSE [ok |-> FALSE, v |-> 0]

\* ToSystemDuration without the case label of CUSTOM_CLOCK: the switch
\* falls through to return tDuration()
ToSystemDurationOfSystemTimeOnly(app_duration) ==
  CASE mode = SYSTEM_TIME -> [ok |-> TRUE, defined |-> TRUE, v |-> app_duration]
    [] mode = CUSTOM_CLOCK -> [ok |-> TRUE, defined |-> TRUE, v |-> ToDuration(0)]
    [] mode = STRETCHED_SYSTEM_TIME ->
         IF ~LoadParameters.ok
         THEN [ok |-> FALSE, defined |-> TRUE, v |-> ToDuration(0)]
         ELSE LET params == LoadParameters.params
                  r == IF TakesMultiplyFirst(app_duration)
                       THEN MultiplyFirst(app_duration, params.time_scaling_numerator,
                                          params.time_scaling_denominator)
                       ELSE DivideFirst(app_duration, params.time_scaling_numerator,
                                        params.time_scaling_denominator)
              IN  [ok |-> TRUE, defined |-> r.defined, v |-> r.v]

\* ToSystemDuration(app_duration) run with no store in between; ok is FALSE
\* when its LoadParameters does not return, defined is FALSE when an
\* int64_t overflows
ToSystemDuration(app_duration) ==
  CASE mode \in {SYSTEM_TIME, CUSTOM_CLOCK} ->
         [ok |-> TRUE, defined |-> TRUE, v |-> app_duration]
    [] mode = STRETCHED_SYSTEM_TIME ->
         IF ~LoadParameters.ok
         THEN [ok |-> FALSE, defined |-> TRUE, v |-> ToDuration(0)]
         ELSE LET params == LoadParameters.params
                  r == IF TakesMultiplyFirst(app_duration)
                       THEN MultiplyFirst(app_duration, params.time_scaling_numerator,
                                          params.time_scaling_denominator)
                       ELSE DivideFirst(app_duration, params.time_scaling_numerator,
                                        params.time_scaling_denominator)
              IN  [ok |-> TRUE, defined |-> r.defined, v |-> r.v]

\* ------------------------------------------------------------------- Now()

\* Now(): tBaseClock::now(), then the mode.load of GetTimeMode
NowBegin(r) ==
  /\ rd[r].pc = "idle"
  /\ rd' = [rd EXCEPT ![r] =
       CASE mode = SYSTEM_TIME -> [NoRead EXCEPT !.pc = "done", !.sys = sysclock, !.res = sysclock]
         [] mode = CUSTOM_CLOCK -> [NoRead EXCEPT !.pc = "custom", !.sys = sysclock]
         [] mode = STRETCHED_SYSTEM_TIME -> [NoRead EXCEPT !.pc = "load", !.sys = sysclock]]
  /\ ld' = [ld EXCEPT ![r] =
       IF mode = STRETCHED_SYSTEM_TIME THEN [NoLoad EXCEPT !.at = "p1"] ELSE NoLoad]
  /\ UNCHANGED <<store, engine, sysclock, writer, sched>>

\* case CUSTOM_CLOCK: return current_time.Load()
NowCustom(r) ==
  /\ rd[r].pc = "custom"
  /\ rd' = [rd EXCEPT ![r] = [@ EXCEPT !.pc = "done", !.res = AtomicLoad(current_time)]]
  /\ UNCHANGED <<store, engine, sysclock, writer, ld, sched>>

\* case STRETCHED_SYSTEM_TIME: one load of LoadParameters
NowLoad(r) ==
  /\ rd[r].pc = "load"
  /\ LoadStep(r)
  /\ UNCHANGED <<store, engine, sysclock, writer, rd, sched>>

\* case STRETCHED_SYSTEM_TIME, once LoadParameters has returned
NowStretched(r) ==
  /\ rd[r].pc = "load"
  /\ ld[r].at = "got"
  /\ rd' = [rd EXCEPT ![r] =
       [@ EXCEPT !.pc = "done", !.res = Stretch(Decode(ld[r].h0, ld[r].h1), rd[r].sys),
                 !.exact = Decode(ld[r].h0, ld[r].h1).exact]]
  /\ ld' = [ld EXCEPT ![r] = NoLoad]
  /\ UNCHANGED <<store, engine, sysclock, writer, sched>>

\* Now() returns
NowReturn(r) ==
  /\ rd[r].pc = "done"
  /\ rd' = [rd EXCEPT ![r] = NoRead]
  /\ UNCHANGED <<store, engine, sysclock, writer, ld, sched>>

Reader(r) == NowBegin(r) \/ NowCustom(r) \/ NowLoad(r) \/ NowStretched(r) \/ NowReturn(r)

\* ------------------------------------------------- the two singletons

\* internal::tTimeMutex::Instance() throws std::logic_error
MutexThrows == "tTimeMutex" \in destroyed

\* tListenersSingleton::Instance() throws std::logic_error
ListThrows == "tListenersSingleton" \in destroyed

\* Acquire that does not wait for the owner
AcquireAtOnce == lock' = self

\* std::lock_guard<std::mutex> lock(...): blocks while another thread owns
\* the mutex
Acquire == lock = FREE /\ lock' = self

\* ------------------------------------------------------- listener registry

Event(l, kind, t, m, b) == [l |-> l, kind |-> kind, t |-> t, m |-> m, b |-> b]

\* NotifyListenersTime without the catch of std::logic_error: the list is
\* used though it was torn down
NotifyListenersTimeOfDeadList(list, t) ==
  [i \in 1..Len(list) |-> Event(list[i], "TimeChanged", t, "", FALSE)]

\* NotifyListeners(const tTimestamp&): TimeChanged on each listener of a copy
\* of the list, from begin() to end(); nothing when Instance() throws
NotifyListenersTime(list, t) ==
  IF ListThrows THEN <<>>
  ELSE [i \in 1..Len(list) |-> Event(list[i], "TimeChanged", t, "", FALSE)]

\* NotifyListenersMode from the last listener to the first
NotifyListenersModeBackwards(list, new_mode) ==
  IF ListThrows THEN <<>>
  ELSE [i \in 1..Len(list) |->
          Event(list[Len(list) + 1 - i], "TimeModeChanged", 0, new_mode, FALSE)]

\* NotifyListeners(tTimeMode)
NotifyListenersMode(list, new_mode) ==
  IF ListThrows THEN <<>>
  ELSE [i \in 1..Len(list) |-> Event(list[i], "TimeModeChanged", 0, new_mode, FALSE)]

\* NotifyListeners(bool)
NotifyListenersFactor(list, app_time_faster) ==
  IF ListThrows THEN <<>>
  ELSE [i \in 1..Len(list) |->
          Event(list[i], "TimeStretchingFactorChanged", 0, "", app_time_faster)]

\* ModeSwitchEvents without the comparison of the modes
ModeSwitchEventsAlways(old_mode, m, list) == NotifyListenersMode(list, m)

\* if (mode.load() != (int)m) { mode.store((int)m); NotifyListeners(m); }:
\* the callbacks it makes
ModeSwitchEvents(old_mode, m, list) ==
  IF old_mode # m THEN NotifyListenersMode(list, m) ELSE <<>>

\* std::remove + erase
Remove(list, l) == SelectSeq(list, LAMBDA x : x # l)

IsRegistered(l) == \E i \in 1..Len(listeners) : listeners[i] = l

\* entry of a call of the scheduled mutating thread: its arguments, and the
\* state it finds
Enter(c) ==
  /\ pc = "idle"
  /\ call' = c
  /\ pre' = Snapshot
  /\ UNCHANGED <<prev, self, parked, destroyed>>

\* return of a call (the lock_guard, if any, releases the mutex); a
\* SetTimeStretching that passed the check becomes prev
Return ==
  /\ pc = "ret"
  /\ pc' = "idle"
  /\ lock' = IF lock = self THEN FREE ELSE lock
  /\ prev' = CASE call.op = "SetTimeStretching" /\ InRange(call.n, call.d) -> call
               [] call.op \in {"Construct", "Destroy", "ToSystemDuration"} -> prev
               [] OTHER -> NoCall
  /\ call' = NoCall
  /\ pre' = NoSnapshot
  /\ local' = NoLocal
  /\ events' = <<>>
  /\ result' = NoResult
  /\ UNCHANGED <<store, engine, sysclock, pubs, pushed, ld, rd, self, parked, destroyed>>

\* tTimeStretchingListener::tTimeStretchingListener()
Construct(l) ==
  /\ ~IsRegistered(l)
  /\ Enter([NoCall EXCEPT !.op = "Construct", !.l = l])
  /\ events' = <<>>
  /\ IF MutexThrows
     THEN UNCHANGED <<lock, listeners>>
     ELSE /\ Acquire
          /\ listeners' = IF ListThrows THEN listeners ELSE Append(listeners, l)
  /\ pc' = "ret"
  /\ UNCHANGED <<store, mode, counter, current_time, current_clock, sysclock,
                 local, pubs, pushed, ld, rd, result>>

\* Destroy without the lock_guard
DestroyWithoutLock(l) ==
  /\ IsRegistered(l)
  /\ Enter([NoCall EXCEPT !.op = "Destroy", !.l = l])
  /\ events' = <<>>
  /\ listeners' = IF ListThrows THEN listeners ELSE Remove(listeners, l)
  /\ pc' = "ret"
  /\ UNCHANGED <<store, mode, counter, current_time, current_clock, sysclock,
                 local, pubs, pushed, ld, rd, result, lock>>

\* tTimeStretchingListener::~tTimeStretchingListener()
Destroy(l) ==
  /\ IsRegistered(l)
  /\ Enter([NoCall EXCEPT !.op = "Destroy", !.l = l])
  /\ events' = <<>>
  /\ IF MutexThrows
     THEN UNCHANGED <<lock, listeners>>
     ELSE /\ Acquire
          /\ listeners' = IF ListThrows THEN listeners ELSE Remove(listeners, l)
  /\ pc' = "ret"
  /\ UNCHANGED <<store, mode, counter, current_time, current_clock, sysclock,
                 local, pubs, pushed, ld, rd, result>>

\* ----------------------------------------------------------- SetTimeSource

\* SetTimeSource(clock, initial_time) with clock != NULL, up to
\* current_time.Store(initial_time)
SetTimeSourceBegin(clock, initial_time) ==
  /\ Enter([NoCall EXCEPT !.op = "SetTimeSource", !.clock = clock, !.t = initial_time])
  /\ events' = <<>>
  /\ IF MutexThrows
     THEN /\ pc' = "ret"
          /\ UNCHANGED <<lock, current_clock, current_time, pushed>>
     ELSE /\ Acquire
          /\ current_clock' = clock
          /\ current_time' = AtomicStore(initial_time)
          /\ pushed' = initial_time
          /\ pc' = "ts_mode"
  /\ UNCHANGED <<store, mode, counter, listeners, sysclock, local, pubs, ld, rd, result>>

\* SetTimeSourceFinish with NotifyListeners(initial_time) inside the if
SetTimeSourceFinishTimeInsideIf ==
  /\ pc = "ts_mode"
  /\ mode' = CUSTOM_CLOCK
  /\ events' = IF mode # CUSTOM_CLOCK
               THEN NotifyListenersMode(listeners, CUSTOM_CLOCK)
                      \o NotifyListenersTime(listeners, call.t)
               ELSE <<>>
  /\ pc' = "ret"
  /\ UNCHANGED <<store, counter, current_time, current_clock, listeners, sysclock,
                 call, prev, pre, local, pubs, pushed, ld, rd, result, sched>>

\* ... the mode switch and the two notification passes
SetTimeSourceFinish ==
  /\ pc = "ts_mode"
  /\ mode' = CUSTOM_CLOCK
  /\ events' = ModeSwitchEvents(mode, CUSTOM_CLOCK, listeners)
                 \o NotifyListenersTime(listeners, call.t)
  /\ pc' = "ret"
  /\ UNCHANGED <<store, counter, current_time, current_clock, listeners, sysclock,
                 call, prev, pre, local, pubs, pushed, ld, rd, result, sched>>

\* SetTimeSourceNull that switches back to SYSTEM_TIME
SetTimeSourceNullToSystemTime(initial_time) ==
  /\ Enter([NoCall EXCEPT !.op = "SetTimeSource", !.t = initial_time])
  /\ IF MutexThrows
     THEN /\ events' = <<>>
          /\ UNCHANGED <<lock, mode>>
     ELSE /\ Acquire
          /\ mode' = SYSTEM_TIME
          /\ events' = ModeSwitchEvents(mode, SYSTEM_TIME, listeners)
  /\ pc' = "ret"
  /\ UNCHANGED <<store, counter, current_time, current_clock, listeners, sysclock,
                 local, pubs, pushed, ld, rd, result>>

\* SetTimeSource(NULL, initial_time)
SetTimeSourceNull(initial_time) ==
  /\ Enter([NoCall EXCEPT !.op = "SetTimeSource", !.t = initial_time])
  /\ IF MutexThrows
     THEN /\ events' = <<>>
          /\ UNCHANGED <<lock, mode>>
     ELSE /\ Acquire
          /\ mode' = STRETCHED_SYSTEM_TIME
          /\ events' = ModeSwitchEvents(mode, STRETCHED_SYSTEM_TIME, listeners)
  /\ pc' = "ret"
  /\ UNCHANGED <<store, counter, current_time, current_clock, listeners, sysclock,
                 local, pubs, pushed, ld, rd, result>>

\* ------------------------------------------- tCustomClock::SetApplicationTime

\* IsActiveClock without the test of the mode
IsActiveClockWhateverMode(clock) == clock = current_clock

\* whether the push takes effect
IsActiveClock(clock) == clock = current_clock /\ mode = CUSTOM_CLOCK

SetApplicationTime(clock, new_time) ==
  /\ Enter([NoCall EXCEPT !.op = "SetApplicationTime", !.clock = clock, !.t = new_time])
  /\ IF MutexThrows
     THEN /\ events' = <<>>
          /\ UNCHANGED <<lock, current_time, pushed>>
     ELSE /\ Acquire
          /\ current_time' = IF IsActiveClock(clock) THEN AtomicStore(new_time)
                             ELSE current_time
          /\ events' = IF IsActiveClock(clock) THEN NotifyListenersTime(listeners, new_time)
                       ELSE <<>>
          /\ pushed' = IF clock = pre'.current_clock /\ pre'.mode = CUSTOM_CLOCK
                       THEN new_time ELSE pushed
  /\ pc' = "ret"
  /\ UNCHANGED <<store, mode, counter, current_clock, listeners, sysclock, local, pubs, ld, rd, result>>

\* ------------------------------------------------------- SetTimeStretching

\* SetTimeStretching(numerator, denominator): the parameter check, and on
\* success the lock and the start of LoadParameters
SetTimeStretchingBegin(numerator, denominator) ==
  /\ pubs < MaxStores
  /\ Enter([NoCall EXCEPT !.op = "SetTimeStretching", !.n = numerator, !.d = denominator])
  /\ events' = <<>>
  /\ IF InRange(numerator, denominator) /\ ~MutexThrows
     THEN /\ Acquire
          /\ pc' = "st_load"
          /\ ld' = [ld EXCEPT ![self] = [NoLoad EXCEPT !.at = "p1"]]
     ELSE /\ pc' = "ret"
          /\ UNCHANGED <<lock, ld>>
  /\ UNCHANGED <<store, engine, sysclock, local, pubs, pushed, rd, result>>

\* ------------------------------------------------------- ToSystemDuration

\* a call ToSystemDuration(app_duration) of the scheduled thread while no
\* thread is storing; it takes no lock, and it does not return when its
\* LoadParameters does not
ToSystemDurationCall(app_duration) ==
  /\ lock = FREE
  /\ Enter([NoCall EXCEPT !.op = "ToSystemDuration", !.app_duration = app_duration])
  /\ events' = <<>>
  /\ pc' = IF ToSystemDuration(app_duration).ok THEN "ret" ELSE "sd_load"
  /\ result' = [defined |-> ToSystemDuration(app_duration).defined,
                v |-> ToSystemDuration(app_duration).v]
  /\ UNCHANGED <<store, engine, sysclock, local, pubs, pushed, ld, rd, lock>>

\* LoadParameters(params), one load at a time
SetTimeStretchingLoad ==
  /\ pc = "st_load"
  /\ LoadStep(self)
  /\ UNCHANGED <<store, engine, sysclock, writer, rd, sched>>

\* from new_factor to the two words StoreParameters builds
SetTimeStretchingCompute ==
  /\ pc = "st_load"
  /\ ld[self].at = "got"
  /\ ld' = [ld EXCEPT ![self] = NoLoad]
  /\ LET old == Decode(ld[self].h0, ld[self].h1)
         system_time == sysclock
         app_time == ToApplicationTime(system_time).v
         params == [time_scaling_numerator |-> call.n,
                    time_scaling_denominator |-> call.d,
                    time_diff |-> system_time - app_time, exact |-> TRUE]
     IN  IF FactorDiffers(call.n, call.d,
                          old.time_scaling_numerator, old.time_scaling_denominator)
         THEN /\ counter' = NextCounter(counter)
              /\ pubs' = pubs + 1
              /\ local' = [old |-> old, params |-> params,
                           system_time |-> system_time, app_time |-> app_time,
                           h0 |-> StoreWord0(NextCounter(counter), params, pubs + 1),
                           h1 |-> StoreWord1(NextCounter(counter), params, pubs + 1)]
              /\ pc' = "st_store1"
         ELSE /\ pc' = "ret"
              /\ UNCHANGED <<counter, pubs, local>>
  /\ UNCHANGED <<store, mode, current_time, current_clock, listeners, sysclock,
                 call, prev, pre, events, pushed, rd, result, sched>>

\* the four stores of StoreParameters
StoreParameters1 ==
  /\ pc = "st_store1"
  /\ time_stretching_parameters1' = local.h0
  /\ pc' = "st_store2"
  /\ UNCHANGED <<time_stretching_parameters2, time_stretching_parameters1_copy,
                 time_stretching_parameters2_copy, engine, sysclock,
                 call, prev, pre, local, events, pubs, pushed, ld, rd, result, sched>>

StoreParameters2 ==
  /\ pc = "st_store2"
  /\ time_stretching_parameters2' = local.h1
  /\ pc' = "st_store3"
  /\ UNCHANGED <<time_stretching_parameters1, time_stretching_parameters1_copy,
                 time_stretching_parameters2_copy, engine, sysclock,
                 call, prev, pre, local, events, pubs, pushed, ld, rd, result, sched>>

StoreParameters3 ==
  /\ pc = "st_store3"
  /\ time_stretching_parameters1_copy' = local.h0
  /\ pc' = "st_store4"
  /\ UNCHANGED <<time_stretching_parameters1, time_stretching_parameters2,
                 time_stretching_parameters2_copy, engine, sysclock,
                 call, prev, pre, local, events, pubs, pushed, ld, rd, result, sched>>

StoreParameters4 ==
  /\ pc = "st_store4"
  /\ time_stretching_parameters2_copy' = local.h1
  /\ pc' = "st_mode"
  /\ UNCHANGED <<time_stretching_parameters1, time_stretching_parameters2,
                 time_stretching_parameters1_copy, engine, sysclock,
                 call, prev, pre, local, events, pubs, pushed, ld, rd, result, sched>>

\* SetTimeStretchingFinish with the pass of line 254 before the mode switch
SetTimeStretchingFinishFactorFirst ==
  /\ pc = "st_mode"
  /\ mode' = STRETCHED_SYSTEM_TIME
  /\ events' = NotifyListenersFactor(listeners,
                      FactorGreater(call.n, call.d, local.old.time_scaling_numerator,
                                    local.old.time_scaling_denominator))
                 \o ModeSwitchEvents(mode, STRETCHED_SYSTEM_TIME, listeners)
  /\ pc' = "ret"
  /\ UNCHANGED <<store, counter, current_time, current_clock, listeners, sysclock,
                 call, prev, pre, local, pubs, pushed, ld, rd, result, sched>>

\* the mode switch and the two notification passes
SetTimeStretchingFinish ==
  /\ pc = "st_mode"
  /\ mode' = STRETCHED_SYSTEM_TIME
  /\ events' = ModeSwitchEvents(mode, STRETCHED_SYSTEM_TIME, listeners)
                 \o NotifyListenersFactor(listeners,
                      FactorGreater(call.n, call.d, local.old.time_scaling_numerator,
                                    local.old.time_scaling_denominator))
  /\ pc' = "ret"
  /\ UNCHANGED <<store, counter, current_time, current_clock, listeners, sysclock,
                 call, prev, pre, local, pubs, pushed, ld, rd, result, sched>>

Writer ==
  \/ \E clock \in Clocks, t \in CustomTimes : SetTimeSourceBegin(clock, t)
  \/ SetTimeSourceFinish
  \/ \E t \in CustomTimes : SetTimeSourceNull(t)
  \/ \E clock \in Clocks, t \in CustomTimes : SetApplicationTime(clock, t)
  \/ \E a \in StretchArgs : SetTimeStretchingBegin(a[1], a[2])
  \/ SetTimeStretchingLoad
  \/ SetTimeStretchingCompute
  \/ StoreParameters1
  \/ StoreParameters2
  \/ StoreParameters3
  \/ StoreParameters4
  \/ SetTimeStretchingFinish
  \/ Return
  \/ \E l \in AllListeners : Construct(l)
  \/ \E l \in AllListeners : Destroy(l)
  \/ \E x \in Durations : ToSystemDurationCall(x)

\* the mutating thread alone; Now() is ToApplicationTime(sysclock)
Next == Tick \/ Writer

Spec == Init /\ [][Next]_vars

\* the mutating thread without listeners, on the arguments ConcClocks and
\* ConcStretchArgs
ConcWriter ==
  \/ \E clock \in ConcClocks, t \in CustomTimes : SetTimeSourceBegin(clock, t)
  \/ SetTimeSourceFinish
  \/ \E t \in CustomTimes : SetTimeSourceNull(t)
  \/ \E clock \in ConcClocks, t \in CustomTimes : SetApplicationTime(clock, t)
  \/ \E a \in ConcStretchArgs : SetTimeStretchingBegin(a[1], a[2])
  \/ SetTimeStretchingLoad
  \/ SetTimeStretchingCompute
  \/ StoreParameters1
  \/ StoreParameters2
  \/ StoreParameters3
  \/ StoreParameters4
  \/ SetTimeStretchingFinish
  \/ Return

\* the mutating thread and the readers
ConcNext == Tick \/ ConcWriter \/ \E r \in Readers : Reader(r)

ConcSpec == (Init \/ InitWrap) /\ [][ConcNext]_vars

\* ------------------------------------------------- several mutating threads

\* the position of the scheduled thread
Context == [pc |-> pc, call |-> call, pre |-> pre, local |-> local, events |-> events,
            result |-> result]

\* the position of the mutating thread t
PositionOf(t) == IF t = self THEN Context ELSE parked[t]

\* the scheduler takes the processor from self and gives it to t
Switch(t) ==
  /\ t # self
  /\ self' = t
  /\ parked' = [parked EXCEPT ![self] = Context, ![t] = NoContext]
  /\ pc' = parked[t].pc
  /\ call' = parked[t].call
  /\ pre' = parked[t].pre
  /\ local' = parked[t].local
  /\ events' = parked[t].events
  /\ result' = parked[t].result
  /\ UNCHANGED <<store, engine, sysclock, prev, pubs, pushed, ld, rd, lock, destroyed>>

\* the calls of the mutating threads, on the arguments ConcClocks,
\* ConcStretchArgs and LockListeners
LockWriter ==
  \/ \E clock \in ConcClocks : SetTimeSourceBegin(clock, 5)
  \/ SetTimeSourceFinish
  \/ SetTimeSourceNull(0)
  \/ \E clock \in ConcClocks : SetApplicationTime(clock, 0)
  \/ \E a \in ConcStretchArgs \cup {<<0, 1>>} : SetTimeStretchingBegin(a[1], a[2])
  \/ SetTimeStretchingLoad
  \/ SetTimeStretchingCompute
  \/ StoreParameters1
  \/ StoreParameters2
  \/ StoreParameters3
  \/ StoreParameters4
  \/ SetTimeStretchingFinish
  \/ Return
  \/ \E l \in LockListeners : Construct(l)
  \/ \E l \in LockListeners : Destroy(l)

\* the mutating threads, scheduled in any order
LockNext == LockWriter \/ \E t \in Mutators : Switch(t)

LockSpec == Init /\ [][LockNext]_vars

\* ------------------------------------------------------- static teardown

Singletons == {"tTimeMutex", "tListenersSingleton"}

\* the singleton holder destroys its instance (at process exit, no call in
\* progress); Instance() throws std::logic_error from then on
Teardown(singleton) ==
  /\ pc = "idle"
  /\ lock = FREE
  /\ singleton \notin destroyed
  /\ destroyed' = destroyed \cup {singleton}
  /\ UNCHANGED <<store, engine, sysclock, writer, ld, rd, lock, self, parked>>

\* the calls of LockWriter before and after the teardown
TeardownNext == LockWriter \/ \E singleton \in Singletons : Teardown(singleton)

TeardownSpec == Init /\ [][TeardownNext]_vars

\* -------------------------------------------------------------- fairness

\* a thread inside the retry loop of LoadParameters keeps running
FairConcSpec ==
  /\ ConcSpec
  /\ \A r \in Readers : WF_vars(Reader(r))
  /\ WF_vars(SetTimeStretchingLoad)
  /\ WF_vars(SetTimeStretchingCompute)

\* ---------------------------------------------------------------- ISO 8601

\* A std::string or char buffer is the sequence of its characters, each a
\* string of length one; a char* is an index into it; NULL is the index 0 and
\* the terminating 0 is the character NUL.  A time_t is a count of whole days
\* since 1970-01-01 and a second of that day (a count of seconds does not fit
\* the integers of the model checker as one number); a tTimestamp or tDuration
\* is a time_t and the nanoseconds above it, 0 .. 10^9 - 1.

NUL == ""

DigitChars == <<"0", "1", "2", "3", "4", "5", "6", "7", "8", "9">>

\* isdigit(ch)
IsDigit(ch) == \E i \in 1..10 : DigitChars[i] = ch

DigitValue(ch) == (CHOOSE i \in 1..10 : DigitChars[i] = ch) - 1

\* *c for the char* c into the buffer s
At(s, c) == IF c \in 1..Len(s) THEN s[c] ELSE NUL

\* strchr(c, ch) in the buffer s
Strchr(s, c, ch) ==
  IF \E i \in c..Len(s) : s[i] = ch
  THEN CHOOSE i \in c..Len(s) : s[i] = ch /\ \A j \in c..(i - 1) : s[j] # ch
  ELSE 0

RECURSIVE AtoiDigits(_, _, _)
AtoiDigits(s, c, value) ==
  IF IsDigit(At(s, c)) THEN AtoiDigits(s, c + 1, 10 * value + DigitValue(s[c])) ELSE value

\* atoi(c) in the buffer s: an optional sign, then the digits up to the
\* first other character
Atoi(s, c) ==
  CASE At(s, c) = "-" -> 0 - AtoiDigits(s, c + 1, 0)
    [] At(s, c) = "+" -> AtoiDigits(s, c + 1, 0)
    [] OTHER -> AtoiDigits(s, c, 0)

RECURSIVE Decimal(_)
\* the decimal digits of n >= 0
Decimal(n) ==
  IF n < 10 THEN <<DigitChars[n + 1]>> ELSE Append(Decimal(n \div 10), DigitChars[(n % 10) + 1])

RECURSIVE Zeros(_)
Zeros(k) == IF k <= 0 THEN <<>> ELSE <<"0">> \o Zeros(k - 1)

\* oss << n
Stream(n) == IF n < 0 THEN <<"-">> \o Decimal(0 - n) ELSE Decimal(n)

\* sprintf("%0<width>d", n): the sign counts for the width
ZeroPadded(width, n) ==
  IF n < 0
  THEN <<"-">> \o Zeros(width - 1 - Len(Decimal(0 - n))) \o Decimal(0 - n)
  ELSE Zeros(width - Len(Decimal(n))) \o Decimal(n)

\* C++ % : the remainder has the sign of the dividend
Remainder(a, b) == IF a < 0 THEN 0 - ((0 - a) % b) ELSE a % b

\* --------------------------------------------------------------- calendar

IsLeap(year) == year % 4 = 0 /\ (year % 100 # 0 \/ year % 400 = 0)

\* the leap years before year
LeapsBefore(year) == (year - 1) \div 4 - (year - 1) \div 100 + (year - 1) \div 400

\* days from 1970-01-01 to the first of January of year
DaysBeforeYear(year) == 365 * (year - 1970) + LeapsBefore(year) - LeapsBefore(1970)

MonthLengths(year) ==
  <<31, IF IsLeap(year) THEN 29 ELSE 28, 31, 30, 31, 30, 31, 31, 30, 31, 30, 31>>

RECURSIVE DaysBeforeMonth(_, _)
\* days from the first of January to the first of month mon (0 is January)
DaysBeforeMonth(year, mon) ==
  IF mon = 0 THEN 0 ELSE DaysBeforeMonth(year, mon - 1) + MonthLengths(year)[mon]

\* memset(&t, 0, sizeof(t))
ZeroTm == [tm_year |-> 0, tm_mon |-> 0, tm_mday |-> 0, tm_hour |-> 0, tm_min |-> 0,
           tm_sec |-> 0, tm_yday |-> 0, tm_gmtoff |-> 0]

\* a time_t plus a count of seconds
AddSeconds(tt, seconds) ==
  [days |-> tt.days + (tt.secs + seconds) \div 86400, secs |-> (tt.secs + seconds) % 86400]

\* timegm(&t): the fields may lie outside their ranges and are carried over
Timegm(t) ==
  LET year == 1900 + t.tm_year + t.tm_mon \div 12
      days == DaysBeforeYear(year) + DaysBeforeMonth(year, (t.tm_mon % 12)) + t.tm_mday - 1
  IN  AddSeconds([days |-> days, secs |-> 0], 3600 * t.tm_hour + 60 * t.tm_min + t.tm_sec)

\* gmtime_r with years of 365 days only
GmtimeRWithoutLeapYears(tt) ==
  LET year == 1970 + tt.days \div 365
      yday == tt.days % 365
      mon == CHOOSE m \in 0..11 :
               /\ DaysBeforeMonth(1970, m) <= yday
               /\ yday < DaysBeforeMonth(1970, m) + MonthLengths(1970)[m + 1]
  IN  [tm_year |-> year - 1900, tm_mon |-> mon, tm_mday |-> yday - DaysBeforeMonth(1970, mon) + 1,
       tm_hour |-> tt.secs \div 3600, tm_min |-> (tt.secs % 3600) \div 60,
       tm_sec |-> tt.secs % 60, tm_yday |-> yday, tm_gmtoff |-> 0]

\* gmtime_r(&tt, &t)
GmtimeR(tt) ==
  LET guess == 1970 + tt.days \div 366
      year == CHOOSE y \in (guess - 1)..(guess + 2) :
                DaysBeforeYear(y) <= tt.days /\ tt.days < DaysBeforeYear(y + 1)
      yday == tt.days - DaysBeforeYear(year)
      mon == CHOOSE m \in 0..11 :
               /\ DaysBeforeMonth(year, m) <= yday
               /\ yday < DaysBeforeMonth(year, m) + MonthLengths(year)[m + 1]
  IN  [tm_year |-> year - 1900, tm_mon |-> mon, tm_mday |-> yday - DaysBeforeMonth(year, mon) + 1,
       tm_hour |-> tt.secs \div 3600, tm_min |-> (tt.secs % 3600) \div 60,
       tm_sec |-> tt.secs % 60, tm_yday |-> yday, tm_gmtoff |-> 0]

\* localtime_r(&tt, &tmp) where local time is gmtoff seconds east of UTC at
\* the instant tt
LocaltimeR(tt, gmtoff) == [GmtimeR(AddSeconds(tt, gmtoff)) EXCEPT !.tm_gmtoff = gmtoff]

\* strftime(buf, 256, "%FT%T", &tmp)
StrftimeFT(t) ==
  ZeroPadded(4, 1900 + t.tm_year) \o <<"-">> \o ZeroPadded(2, t.tm_mon + 1) \o <<"-">>
    \o ZeroPadded(2, t.tm_mday) \o <<"T">> \o ZeroPadded(2, t.tm_hour) \o <<":">>
    \o ZeroPadded(2, t.tm_min) \o <<":">> \o ZeroPadded(2, t.tm_sec)

\* strftime(time_zone, 12, "%z", &tmp): +hhmm or -hhmm
StrftimeZ(t) ==
  LET off == IF t.tm_gmtoff < 0 THEN 0 - t.tm_gmtoff ELSE t.tm_gmtoff
  IN  <<IF t.tm_gmtoff < 0 THEN "-" ELSE "+">>
        \o ZeroPadded(2, off \div 3600) \o ZeroPadded(2, (off % 3600) \div 60)

\* the conversions of "%F", which is "%Y-%m-%d": a number of up to width
\* digits in from .. to, stored with the offset of its field, or a character to
\* match
DateFormat ==
  <<[field |-> "tm_year", width |-> 4, from |-> 0, to |-> 9999, offset |-> 1900],
    [match |-> "-"],
    [field |-> "tm_mon", width |-> 2, from |-> 1, to |-> 12, offset |-> 1],
    [match |-> "-"],
    [field |-> "tm_mday", width |-> 2, from |-> 1, to |-> 31, offset |-> 0]>>

\* the conversions of "%T", which is "%H:%M:%S"
TimeFormat ==
  <<[field |-> "tm_hour", width |-> 2, from |-> 0, to |-> 23, offset |-> 0],
    [match |-> ":"],
    [field |-> "tm_min", width |-> 2, from |-> 0, to |-> 59, offset |-> 0],
    [match |-> ":"],
    [field |-> "tm_sec", width |-> 2, from |-> 0, to |-> 61, offset |-> 0]>>

\* the digits at c, at most width of them
DigitRun(s, c, width) ==
  CHOOSE n \in 0..width :
    /\ \A i \in 0..(n - 1) : IsDigit(At(s, c + i))
    /\ n = width \/ ~IsDigit(At(s, c + n))

\* the first character at or behind c that is no space
SkipSpaces(s, c) == CHOOSE p \in c..(Len(s) + 1) :
                      At(s, p) # " " /\ \A q \in c..(p - 1) : s[q] = " "

RECURSIVE Conversions(_, _, _, _, _)
\* the conversions of format from the k-th on, read at c: spaces before a
\* number are skipped
Conversions(s, c, format, k, t) ==
  IF k > Len(format) THEN [c |-> c, t |-> t]
  ELSE LET item == format[k]
       IN  IF "match" \in DOMAIN item
           THEN IF At(s, c) = item.match THEN Conversions(s, c + 1, format, k + 1, t)
                ELSE [c |-> 0, t |-> t]
           ELSE LET start == SkipSpaces(s, c)
                    n == DigitRun(s, start, item.width)
                    value == AtoiDigits(SubSeq(s, start, start + n - 1), 1, 0)
                IN  IF n = 0 \/ value < item.from \/ value > item.to
                    THEN [c |-> 0, t |-> t]
                    ELSE Conversions(s, start + n, format, k + 1,
                                     [t EXCEPT ![item.field] = value - item.offset])

\* strptime(charbuf, "%FT%T", &t): the char* behind the last character read,
\* or NULL, and t, which gets the fields of "%F" when all of "%F" was read
\* and the fields of "%T" when all of "%T" was
Strptime(s, t) ==
  LET date == Conversions(s, 1, DateFormat, 1, t)
      time == Conversions(s, date.c + 1, TimeFormat, 1, date.t)
  IN  IF date.c = 0 THEN [c |-> 0, t |-> t]
      ELSE IF At(s, date.c) # "T" \/ time.c = 0 THEN [c |-> 0, t |-> date.t]
           ELSE time

\* ------------------------------------------------------- ParseIsoTimestamp

RECURSIVE FractionLoop(_, _, _, _)
\* the loop over i = 0 .. 8 from i on: c is advanced before the character
\* is looked at, so after nine digits c is left on the ninth
FractionLoop(s, c, i, nanos) ==
  IF i >= 9 THEN [c |-> c, nanos |-> nanos]
  ELSE IF ~IsDigit(At(s, c + 1)) THEN [c |-> c + 1, nanos |-> nanos]
       ELSE FractionLoop(s, c + 1, i + 1, [nanos EXCEPT ![i + 1] = s[c + 1]])

\* the offset branch without the test for a half hour
TimeZoneOfWholeHours(s, c, colon) ==
  IF c # 0 /\ (At(s, c) = "+" \/ At(s, c) = "-") /\ colon # 0
  THEN Atoi(SubSeq(s, 1, colon - 1), c) * (-3600)
  ELSE 0

\* tz: the seconds to add to the time read as UTC; *colon = 0 ends the
\* buffer that atoi reads
TimeZone(s, c, colon) ==
  IF c # 0 /\ (At(s, c) = "+" \/ At(s, c) = "-") /\ colon # 0
  THEN LET sign == IF At(s, c) = "-" THEN -1 ELSE 1
       IN  Atoi(SubSeq(s, 1, colon - 1), c) * (-3600)
             + (IF At(s, colon + 1) = "3" THEN sign * (-1800) ELSE 0)
  ELSE 0

\* ParseIsoTimestamp(s); no statement of it throws
ParseIsoTimestamp(s) ==
  LET parsed == Strptime(s, ZeroTm)
      fraction == IF parsed.c # 0 /\ At(s, parsed.c) = "."
                  THEN FractionLoop(s, parsed.c, 0, Zeros(9))
                  ELSE [c |-> parsed.c, nanos |-> Zeros(9)]
      rest == IF parsed.c # 0 /\ At(s, parsed.c) = "." THEN Atoi(fraction.nanos, 1) ELSE 0
      c == fraction.c
      colon == IF c # 0 THEN Strchr(s, c, ":") ELSE 0
      tt == AddSeconds(Timegm(parsed.t), TimeZone(s, c, colon))
  IN  [thrown |-> FALSE, v |-> [days |-> tt.days, secs |-> tt.secs, ns |-> rest]]

\* ------------------------------------------------------------- ToIsoString

\* sub_seconds for any ns # 0 with nine digits
SubSecondsOfNineDigits(ns) ==
  IF ns = 0 THEN <<>> ELSE <<".">> \o ZeroPadded(9, ns)

\* sub_seconds: what both ToIsoString overloads print for the int ns
SubSeconds(ns) ==
  IF ns = 0 THEN <<>>
  ELSE IF Remainder(ns, 1000000) = 0 THEN <<".">> \o ZeroPadded(3, TruncDiv(ns, 1000000))
  ELSE IF Remainder(ns, 1000) = 0 THEN <<".">> \o ZeroPadded(6, TruncDiv(ns, 1000))
  ELSE <<".">> \o ZeroPadded(9, ns)

\* duration_cast<std::chrono::seconds>, which truncates towards zero, and
\* what it leaves
Truncated(x) ==
  IF x.days < 0 /\ x.ns > 0
  THEN [tt |-> AddSeconds([days |-> x.days, secs |-> x.secs], 1), rest |-> x.ns - 10 ^ 9]
  ELSE [tt |-> [days |-> x.days, secs |-> x.secs], rest |-> x.ns]

\* ToIsoString(timestamp) where local time is gmtoff seconds east of UTC
ToIsoStringOfTimestamp(timestamp, gmtoff) ==
  LET cast == Truncated(timestamp)
      tt == IF cast.rest < 0 THEN AddSeconds(cast.tt, -1) ELSE cast.tt
      ns == IF cast.rest < 0 THEN cast.rest + 10 ^ 9 ELSE cast.rest
      tmp == LocaltimeR(tt, gmtoff)
      z == StrftimeZ(tmp)
      time_zone == IF Len(z) > 3 THEN SubSeq(z, 1, 3) \o <<":">> \o SubSeq(z, 4, Len(z)) ELSE z
  IN  StrftimeFT(tmp) \o SubSeconds(ns) \o time_zone

\* -------------------------------------------------------- ParseIsoDuration

\* FractionalSeconds with rest read from the digits as they stand, not
\* copied over "000000000"
FractionalSecondsOfPlainNumber(cs) ==
  LET len == Len(cs)
  IN  IF cs[len] # "S" THEN [cs |-> cs, rest |-> 0]
      ELSE LET sec_start == CHOOSE p \in 1..(len - 1) :
                              ~IsDigit(cs[p]) /\ \A q \in (p + 1)..(len - 1) : IsDigit(cs[q])
               count == len - 1 - sec_start
               copied == IF count < 9 THEN count ELSE 9
               nanos == SubSeq(cs, sec_start + 1, sec_start + copied)
           IN  IF cs[sec_start] # "." THEN [cs |-> cs, rest |-> 0]
               ELSE [cs |-> SubSeq(cs, 1, sec_start - 1) \o <<"S">>, rest |-> Atoi(nanos, 1)]

\* "start with fractional seconds": the digits between a '.' and a final 'S'
\* become rest, and the buffer is cut to end with 'S' in place of the '.'
FractionalSeconds(cs) ==
  LET len == Len(cs)
  IN  IF cs[len] # "S" THEN [cs |-> cs, rest |-> 0]
      ELSE LET sec_start == CHOOSE p \in 1..(len - 1) :
                              ~IsDigit(cs[p]) /\ \A q \in (p + 1)..(len - 1) : IsDigit(cs[q])
               count == len - 1 - sec_start
               copied == IF count < 9 THEN count ELSE 9
               nanos == SubSeq(cs, sec_start + 1, sec_start + copied) \o Zeros(9 - copied)
           IN  IF cs[sec_start] # "." THEN [cs |-> cs, rest |-> 0]
               ELSE [cs |-> SubSeq(cs, 1, sec_start - 1) \o <<"S">>, rest |-> Atoi(nanos, 1)]

\* the switch with case 'M' setting tm_min whether or not 'T' was read
SwitchOnUnitOfMinutesOnly(t, ch, time, num) ==
  CASE ch = "Y" -> [thrown |-> FALSE, t |-> [t EXCEPT !.tm_year = 70 + num]]
    [] ch = "M" -> [thrown |-> FALSE, t |-> [t EXCEPT !.tm_min = num]]
    [] ch = "D" -> [thrown |-> FALSE, t |-> [t EXCEPT !.tm_mday = num + 1]]
    [] ch = "H" -> [thrown |-> ~time, t |-> [t EXCEPT !.tm_hour = num]]
    [] ch = "S" -> [thrown |-> ~time, t |-> [t EXCEPT !.tm_sec = num]]
    [] OTHER -> [thrown |-> TRUE, t |-> t]

\* the switch with case 'H' and case 'S' as they are behind 'T'
SwitchOnUnitWithoutTimeCheck(t, ch, time, num) ==
  CASE ch = "Y" -> [thrown |-> FALSE, t |-> [t EXCEPT !.tm_year = 70 + num]]
    [] ch = "M" -> [thrown |-> FALSE,
                    t |-> IF ~time THEN [t EXCEPT !.tm_mon = num] ELSE [t EXCEPT !.tm_min = num]]
    [] ch = "D" -> [thrown |-> FALSE, t |-> [t EXCEPT !.tm_mday = num + 1]]
    [] ch = "H" -> [thrown |-> FALSE, t |-> [t EXCEPT !.tm_hour = num]]
    [] ch = "S" -> [thrown |-> FALSE, t |-> [t EXCEPT !.tm_sec = num]]
    [] OTHER -> [thrown |-> TRUE, t |-> t]

\* switch (*c) behind a run of digits of value num
SwitchOnUnit(t, ch, time, num) ==
  CASE ch = "Y" -> [thrown |-> FALSE, t |-> [t EXCEPT !.tm_year = 70 + num]]
    [] ch = "M" -> [thrown |-> FALSE,
                    t |-> IF ~time THEN [t EXCEPT !.tm_mon = num] ELSE [t EXCEPT !.tm_min = num]]
    [] ch = "D" -> [thrown |-> FALSE, t |-> [t EXCEPT !.tm_mday = num + 1]]
    [] ch = "H" -> [thrown |-> ~time, t |-> [t EXCEPT !.tm_hour = num]]
    [] ch = "S" -> [thrown |-> ~time, t |-> [t EXCEPT !.tm_sec = num]]
    [] OTHER -> [thrown |-> TRUE, t |-> t]

RECURSIVE ParseTheRest(_, _, _, _)
\* "parse the rest": while (*c) from the char* c on
ParseTheRest(cs, c, time, t) ==
  IF At(cs, c) = NUL THEN [thrown |-> FALSE, t |-> t]
  ELSE IF IsDigit(cs[c])
       THEN LET num == Atoi(cs, c)
                behind == c + DigitRun(cs, c, Len(cs))
                field == SwitchOnUnit(t, At(cs, behind), time, num)
            IN  IF field.thrown THEN [thrown |-> TRUE, t |-> t]
                ELSE ParseTheRest(cs, behind + 1, time, field.t)
       ELSE IF cs[c] = "T" THEN ParseTheRest(cs, c + 1, TRUE, t)
            ELSE [thrown |-> TRUE, t |-> t]

ZeroNanos == [days |-> 0, secs |-> 0, ns |-> 0]

\* ParseIsoDuration(s)
ParseIsoDuration(s) ==
  IF Len(s) = 0 \/ s[1] # "P" THEN [thrown |-> TRUE, v |-> ZeroNanos]
  ELSE LET fraction == FractionalSeconds(s)
           rest == ParseTheRest(fraction.cs, 2, FALSE,
                                [ZeroTm EXCEPT !.tm_year = 70, !.tm_mday = 1])
           parsed == Timegm(rest.t)
       IN  IF rest.thrown THEN [thrown |-> TRUE, v |-> ZeroNanos]
           ELSE [thrown |-> FALSE,
                 v |-> [days |-> parsed.days, secs |-> parsed.secs, ns |-> fraction.rest]]

\* the 'T' part written whatever the fields are
TimeOfDayAlways(t, ns) ==
  <<"T">>
    \o (IF t.tm_hour # 0 THEN Stream(t.tm_hour) \o <<"H">> ELSE <<>>)
    \o (IF t.tm_min # 0 THEN Stream(t.tm_min) \o <<"M">> ELSE <<>>)
    \o (IF t.tm_sec # 0 \/ ns # 0
        THEN Stream(t.tm_sec) \o SubSeconds(ns) \o <<"S">> ELSE <<>>)

\* what ToIsoString(duration) writes behind the days
TimeOfDay(t, ns) ==
  IF t.tm_hour # 0 \/ t.tm_min # 0 \/ t.tm_sec # 0 \/ ns # 0
  THEN <<"T">>
         \o (IF t.tm_hour # 0 THEN Stream(t.tm_hour) \o <<"H">> ELSE <<>>)
         \o (IF t.tm_min # 0 THEN Stream(t.tm_min) \o <<"M">> ELSE <<>>)
         \o (IF t.tm_sec # 0 \/ ns # 0
             THEN Stream(t.tm_sec) \o SubSeconds(ns) \o <<"S">> ELSE <<>>)
  ELSE <<>>

\* ToIsoString(duration)
ToIsoStringOfDuration(duration) ==
  LET cast == Truncated(duration)
      t == GmtimeR(cast.tt)
      tm_year == t.tm_year - 70
  IN  <<"P">>
        \o (IF tm_year # 0 THEN Stream(tm_year) \o <<"Y">> ELSE <<>>)
        \o (IF t.tm_yday # 0 THEN Stream(t.tm_yday) \o <<"D">> ELSE <<>>)
        \o TimeOfDay(t, cast.rest)

\* ------------------------------------------------------- calls of the codec

\* bounds of the inputs
MaxTextLen == 5

MaxDays == 1500

MaxYears == 3

\* local time east of UTC in seconds: whole hours, half hours, and +05:45
GmtOffsets == {-12600, -7200, -1800, 0, 1800, 7200, 19800, 20700}

\* instants before, at and after 1970-01-01T00:00:00Z, by day (-1, 0,
\* 2012-02-29, 2014-04-04), second of the day and nanosecond
Timestamps ==
  {[days |-> days, secs |-> secs, ns |-> ns] :
     days \in {-1, 0, 15399, 16164}, secs \in {0, 1799, 51254, 86399},
     ns \in {0, 1000, 25000000, 141414000, 141414141, 999999999}}

DateTimes == {<<"2", "0", "1", "4", "-", "0", "4", "-", "0", "4", "T", "1", "4", ":", "1", "4",
        ":", "1", "4">>, <<"2", "0", "1", "2", "-", "0", "2", "-", "2", "9", "T", "0", "0", ":",
        "0", "0", ":", "0", "0">>, <<"1", "9", "6", "9", "-", "1", "2", "-", "3", "1", "T", "2",
        "3", ":", "5", "9", ":", "5", "9">>}

\* no fraction, and a '.' with 0 .. 9 digits
FractionTexts == {<<>>} \cup {<<".">> \o SubSeq(<<"1", "4", "1", "4", "1", "4", "1", "4", "1">>,
        1, n) : n \in 0..9}

\* the offsets with their seconds east of UTC
OffsetTable ==
  {[text |-> <<"+", "0", "0", ":", "0", "0">>, seconds |-> 0], [text |-> <<"+", "0", "2", ":",
          "0", "0">>, seconds |-> 7200],
   [text |-> <<"-", "0", "2", ":", "0", "0">>, seconds |-> -7200], [text |-> <<"+", "0", "5",
           ":", "3", "0">>, seconds |-> 19800],
   [text |-> <<"-", "0", "3", ":", "3", "0">>, seconds |-> -12600], [text |-> <<"+", "0", "0",
           ":", "3", "0">>, seconds |-> 1800],
   [text |-> <<"-", "0", "0", ":", "3", "0">>, seconds |-> -1800], [text |-> <<"+", "1", "1",
           ":", "0", "0">>, seconds |-> 39600]}

OffsetTexts == {<<"Z">>} \cup {o.text : o \in OffsetTable}

\* texts without a date and time of the form YYYY-MM-DDTHH:MM:SS
MalformedTexts ==
  {<<>>,
   <<"2", "0", "1", "4", "-", "0", "4", "-", "0", "4">>,
   <<"2", "0", "1", "4", "-", "0", "4", "-", "0", "4", " ", "1", "4", ":", "1", "4", ":", "1",
           "4">>,
   <<"1", "4", ":", "1", "4", ":", "1", "4">>,
   <<"2", "0", "1", "4", "-", "0", "4", "-", "0", "4", "T", "1", "4", ":", "1", "4">>,
   <<"a", "b", "c", "d">>,
   <<" ", "2", "0", "1", "4", "-", "0", "4", "-", "0", "4", "T", "1", "4", ":", "1", "4", ":",
           "1", "4">>,
   <<"2", "0", "1", "4", "0", "4", "0", "4", "T", "1", "4", "1", "4", "1", "4">>,
   <<"X", "X", "-", "0", "4", "-", "0", "4", "T", "1", "4", ":", "1", "4", ":", "1", "4", "Z">>,
   <<"2", "0", "1", "4", "-", "4", "-", "4", "T", "1", ":", "2", ":", "3", "Z">>,
   <<"2", "0", "1", "4", "-", "0", "4", "-", "0", "4", "+", "0", "2", ":", "0", "0">>}

\* a '.' with 1 .. 12 digits
LongFractionTexts ==
  {<<".">> \o SubSeq(<<"1", "0", "3", "4", "5", "6", "7", "8", "9", "8", "7", "6">>, 1, n) :
     n \in 1..12}

TimestampTexts ==
  {base \o fraction \o offset :
     base \in DateTimes, fraction \in FractionTexts, offset \in OffsetTexts}
    \cup {base \o fraction \o zone :
            base \in DateTimes, fraction \in LongFractionTexts, zone \in {<<>>, <<"Z">>}}
    \cup MalformedTexts

\* durations of whole days, the durations of the unit tests and their like,
\* and durations below zero
CodecDurations ==
  {[days |-> days, secs |-> 0, ns |-> 0] : days \in 0..MaxDays}
    \cup {[days |-> days, secs |-> secs, ns |-> ns] :
            days \in {0, 400, 428}, secs \in {0, 43, 3235, 3600, 13423, 86399},
            ns \in {0, 1, 25000000, 123400000, 220000000, 141414141}}
    \cup {[days |-> days, secs |-> secs, ns |-> ns] :
            days \in {-1, -366}, secs \in {0, 86399}, ns \in {0, 500000000}}

\* P<N>D
DayText(n) == <<"P">> \o Stream(n) \o <<"D">>

\* P<y>Y<n>M<d>D
MonthText(y, n, d) ==
  <<"P">> \o Stream(y) \o <<"Y">> \o Stream(n) \o <<"M">> \o Stream(d) \o <<"D">>

\* P<n>MT<m>M
MinuteText(n, m) == <<"P">> \o Stream(n) \o <<"M", "T">> \o Stream(m) \o <<"M">>

\* the texts of the unit tests
TestTexts ==
  {<<"P">>, <<"P", "4", "0", "0", "D">>, <<"P", "T", "4", "3", ".", "1", "2", "3", "4", "S">>,
          <<"P", "1", "Y", "2", "M", "4", "D", "T", "3", "H", "4", "3", ".", "2", "2", "S">>,
          <<"P", "1", "Y", "2", "4", "4", "D", "T", "3", "H", "4", "3", ".", "2", "2", "S">>,
   <<"P", "1", "Y", "3", "5", "D">>, <<"P", "T", "5", "3", "M", "5", "5", ".", "0", "2", "5",
           "S">>, <<"P", "T", "0", ".", "1", "4", "1", "4", "1", "4", "S">>}

DurationTexts ==
  TestTexts
    \cup {DayText(n) : n \in 0..MaxDays}
    \cup {MonthText(y, n, d) : y \in 0..MaxYears, n \in 0..12, d \in {0, 4, 30}}
    \cup {MinuteText(n, m) : n \in {0, 2}, m \in {0, 43, 90}}
    \cup {<<"P", "T">> \o minutes \o <<"4", "3">> \o fraction \o <<"S">> :
            minutes \in {<<>>, <<"5", "M">>}, fraction \in LongFractionTexts}

\* the characters of the short texts: 'T', units before and behind 'T', a
\* digit, '.', and a character of no meaning
Alphabet == {"T", "D", "H", "S", "1", ".", "X"}

RECURSIVE TextsOver(_, _)
\* the texts of up to n characters of chars
TextsOver(chars, n) ==
  IF n = 0 THEN {<<>>}
  ELSE LET shorter == TextsOver(chars, n - 1)
       IN  shorter \cup {Append(text, ch) : text \in shorter, ch \in chars}

\* the empty text, and the texts of up to n + 1 characters that start with
\* 'P', with 'T' or with a digit
ShortTexts(n) ==
  {<<>>} \cup {<<first>> \o text : first \in {"P", "T", "1"}, text \in TextsOver(Alphabet, n)}

\* a call ParseIsoTimestamp(s) of the scheduled thread
ParseIsoTimestampCall(s) ==
  /\ Enter([NoCall EXCEPT !.op = "ParseIsoTimestamp", !.s = s])
  /\ events' = <<>>
  /\ pc' = "ret"
  /\ result' = ParseIsoTimestamp(s)
  /\ UNCHANGED <<store, engine, sysclock, local, pubs, pushed, ld, rd, lock>>

\* a call ToIsoString(timestamp) where local time is gmtoff seconds east
ToIsoStringOfTimestampCall(timestamp, gmtoff) ==
  /\ Enter([NoCall EXCEPT !.op = "ToIsoString(tTimestamp)", !.x = timestamp,
                          !.gmtoff = gmtoff])
  /\ events' = <<>>
  /\ pc' = "ret"
  /\ result' = [thrown |-> FALSE, v |-> ToIsoStringOfTimestamp(timestamp, gmtoff)]
  /\ UNCHANGED <<store, engine, sysclock, local, pubs, pushed, ld, rd, lock>>

\* a call ParseIsoDuration(s)
ParseIsoDurationCall(s) ==
  /\ Enter([NoCall EXCEPT !.op = "ParseIsoDuration", !.s = s])
  /\ events' = <<>>
  /\ pc' = "ret"
  /\ result' = ParseIsoDuration(s)
  /\ UNCHANGED <<store, engine, sysclock, local, pubs, pushed, ld, rd, lock>>

\* a call ToIsoString(duration)
ToIsoStringOfDurationCall(duration) ==
  /\ Enter([NoCall EXCEPT !.op = "ToIsoString(tDuration)", !.x = duration])
  /\ events' = <<>>
  /\ pc' = "ret"
  /\ result' = [thrown |-> FALSE, v |-> ToIsoStringOfDuration(duration)]
  /\ UNCHANGED <<store, engine, sysclock, local, pubs, pushed, ld, rd, lock>>

\* ---------------------------------------------------------------- ToString

\* the whole seconds of the duration x since zero
WholeSeconds(x) == x.days * 86400 + x.secs

\* the duration of s seconds and n nanoseconds, 0 <= n < 10^9
SecondsAndNanos(s, n) == [days |-> s \div 86400, secs |-> s % 86400, ns |-> n]

\* ns = -ns
Negated(x) ==
  IF x.ns = 0 THEN SecondsAndNanos(0 - WholeSeconds(x), 0)
  ELSE SecondsAndNanos(0 - WholeSeconds(x) - 1, 10 ^ 9 - x.ns)

\* ToString(ns): ms is duration_cast<milliseconds>(ns) and rest is ns - ms;
\* each later rest is ns less the minutes and the hours of ns
ToStringOfNanoseconds(ns) ==
  IF ns = ZeroNanos THEN <<"0", " ", "m", "s">>
  ELSE LET sign == IF ns.days < 0 THEN <<"-">> ELSE <<>>
           abs == IF ns.days < 0 THEN Negated(ns) ELSE ns
           ms == WholeSeconds(abs) * 1000 + abs.ns \div 1000000
           rest == abs.ns % 1000000
           mins == WholeSeconds(abs) \div 60
           hours == WholeSeconds(abs) \div 3600
       IN  IF rest # 0 \/ ms # 0
           THEN IF rest % 1000 = 0
                THEN sign \o Stream(ms) \o <<".">> \o ZeroPadded(3, rest \div 1000)
                       \o <<" ", "m", "s">>
                ELSE sign \o Stream(ms) \o <<".">> \o ZeroPadded(6, rest) \o <<" ", "m", "s">>
           ELSE IF WholeSeconds(abs) % 60 # 0 \/ abs.ns # 0
                THEN sign \o Stream(WholeSeconds(abs)) \o <<" ", "s">>
                ELSE IF WholeSeconds(abs) % 3600 # 0 \/ abs.ns # 0
                     THEN sign \o Stream(mins) \o <<" ", "m", "i", "n", "u", "t", "e">>
                            \o (IF mins > 1 THEN <<"s">> ELSE <<>>)
                     ELSE sign \o Stream(hours) \o <<" ", "h", "o", "u", "r">>
                            \o (IF hours > 1 THEN <<"s">> ELSE <<>>)

\* arguments of ToString: zero, whole hours, minutes and seconds, values
\* with a part below the second, and the same below zero
ToStringDurations ==
  LET above == {SecondsAndNanos(s, n) :
                  s \in {0, 1, 59, 60, 61, 120, 3600, 5400, 7200, 86400},
                  n \in {0, 1, 1000, 1500, 1000000, 1500000, 25000000, 999999999}}
  IN  above \cup {Negated(x) : x \in above}

\* a call ToString(ns)
ToStringCall(ns) ==
  /\ Enter([NoCall EXCEPT !.op = "ToString", !.x = ns])
  /\ events' = <<>>
  /\ pc' = "ret"
  /\ result' = [thrown |-> FALSE, v |-> ToStringOfNanoseconds(ns)]
  /\ UNCHANGED <<store, engine, sysclock, local, pubs, pushed, ld, rd, lock>>

\* the codec on its own: it reads and writes no state of the library
CodecNext ==
  \/ pc = "idle" /\ \E s \in TimestampTexts : ParseIsoTimestampCall(s)
  \/ pc = "idle" /\ \E timestamp \in Timestamps, gmtoff \in GmtOffsets :
                      ToIsoStringOfTimestampCall(timestamp, gmtoff)
  \/ pc = "idle" /\ \E s \in DurationTexts : ParseIsoDurationCall(s)
  \/ pc = "idle" /\ \E duration \in CodecDurations : ToIsoStringOfDurationCall(duration)
  \/ pc = "idle" /\ \E ns \in ToStringDurations : ToStringCall(ns)
  \/ Return

CodecSpec == Init /\ [][CodecNext]_vars

\* ParseIsoDuration on every short text
ShortTextNext ==
  \/ pc = "idle" /\ \E s \in ShortTexts(MaxTextLen) : ParseIsoDurationCall(s)
  \/ Return

ShortTextSpec == Init /\ [][ShortTextNext]_vars

\* ------------------------------------------------------------------ claims

\* system instants: the ones of the model and some later ones
SysTimes == application_start .. (MaxSysTime + 3)

\* floor(a / b) for b > 0
Floor(a, b) == a \div b

\* whether list holds l
Holds(list, l) == \E i \in 1..Len(list) : list[i] = l

\* the callbacks of one kind that listener l got from the call
Got(l, kind) == SelectSeq(events, LAMBDA e : e.l = l /\ e.kind = kind)

\* the call is a SetTimeStretching that passed the parameter check and has
\* come to its return
StretchingReturns ==
  pc = "ret" /\ call.op = "SetTimeStretching" /\ InRange(call.n, call.d)

\* C1: the two words a LoadParameters call leaves the retry loop with, and
\* decodes, were built by the same StoreParameters call (or are both the
\* initial values), whatever the thread
C1_NoTornRead ==
  \A t \in Threads : ld[t].at = "got" => ld[t].h0.pub = ld[t].h1.pub

\* C2: once the writer has stopped publishing, every LoadParameters call
\* that was started (by Now() or inside SetTimeStretching) leaves its retry
\* loop
C2_LoadParametersTerminates ==
  (<>[](pc \notin {"st_store1", "st_store2", "st_store3", "st_store4"}))
    => \A t \in Threads :
         (ld[t].at \in {"p1", "p2", "c1", "c2"}) ~> (ld[t].at \notin {"p1", "p2", "c1", "c2"})

\* C3: after SetTimeStretching(n, d) that passed the check, application
\* time advances n/d times as fast as system time: for system instants
\* s1 <= s2, Now at s2 minus Now at s1 is n*floor(x2/d) - n*floor(x1/d) with
\* xi = si - application_start - time_diff
C3_StretchedRate ==
  (StretchingReturns /\ mode = STRETCHED_SYSTEM_TIME) =>
    \A s1, s2 \in SysTimes :
      s1 <= s2 =>
        LET diff == LoadParameters.params.time_diff
            x1 == (s1 - application_start) - diff
            x2 == (s2 - application_start) - diff
        IN  /\ ToApplicationTime(s1).ok
            /\ ToApplicationTime(s2).ok
            /\ ToApplicationTime(s2).v - ToApplicationTime(s1).v
                 = call.n * Floor(x2, call.d) - call.n * Floor(x1, call.d)

\* C4: a SetTimeStretching that published parameters makes no jump: the
\* transform yields, for the system instant the call captured, the
\* application time it had under the parameters in force before
C4_NoJump ==
  (StretchingReturns /\ local # NoLocal) =>
    ToApplicationTime(local.system_time) = [ok |-> TRUE, v |-> local.app_time]

\* C5: a SetTimeStretching call makes at most one TimeModeChanged callback
\* per listener; one that follows a SetTimeStretching call with the same
\* ratio makes no callback and leaves the four words and the mode as they
\* were
C5_Idempotent ==
  StretchingReturns =>
    /\ \A l \in AllListeners : Len(Got(l, "TimeModeChanged")) <= 1
    /\ (prev.op = "SetTimeStretching" /\ ~FactorDiffers(call.n, call.d, prev.n, prev.d))
         => (events = <<>> /\ StoreBits = pre.words /\ mode = pre.mode)

\* C6: a SetTimeSource or SetTimeStretching call makes the callback
\* TimeModeChanged(m) exactly when it changed the mode, then with the new
\* mode m and once on each registered listener (and on no other)
C6_ModeChangeNotified ==
  (pc = "ret" /\ call.op \in {"SetTimeSource", "SetTimeStretching"}) =>
    \A l \in AllListeners :
      /\ Len(Got(l, "TimeModeChanged"))
           = IF mode # pre.mode /\ Holds(pre.listeners, l) THEN 1 ELSE 0
      /\ \A i \in 1..Len(Got(l, "TimeModeChanged")) : Got(l, "TimeModeChanged")[i].m = mode

\* C7: of two consecutive SetTimeStretching calls with different ratios r1
\* and then r2, the second makes the callback TimeStretchingFactorChanged(b)
\* once on each registered listener, with b = (r2 > r1)
C7_FactorDirection ==
  (StretchingReturns /\ prev.op = "SetTimeStretching"
     /\ FactorDiffers(call.n, call.d, prev.n, prev.d)) =>
    \A l \in AllListeners :
      Holds(pre.listeners, l) =>
        /\ Len(Got(l, "TimeStretchingFactorChanged")) = 1
        /\ Got(l, "TimeStretchingFactorChanged")[1].b
             = FactorGreater(call.n, call.d, prev.n, prev.d)

\* C8: when a SetTimeStretching call that passed the check returns, the
\* mode is STRETCHED_SYSTEM_TIME
C8_StretchedAfterCall == StretchingReturns => mode = STRETCHED_SYSTEM_TIME

C10_CustomClock ==
  /\ mode = CUSTOM_CLOCK =>
       \A s \in SysTimes : ToApplicationTime(s) = [ok |-> TRUE, v |-> pushed]
  /\ (pc = "ret" /\ call.op = "SetApplicationTime"
        /\ call.clock = pre.current_clock /\ pre.mode = CUSTOM_CLOCK) =>
       /\ pushed = call.t
       /\ \A l \in AllListeners :
            /\ Len(Got(l, "TimeChanged")) = IF Holds(pre.listeners, l) THEN 1 ELSE 0
            /\ \A i \in 1..Len(Got(l, "TimeChanged")) : Got(l, "TimeChanged")[i].t = call.t
       /\ Len(events) = Len(pre.listeners)

C10_Reached ==
  /\ pc = "ret" /\ call.op = "SetApplicationTime"
  /\ call.clock = pre.current_clock /\ pre.mode = CUSTOM_CLOCK
  /\ call.t # pre.current_time
  /\ Len(pre.listeners) = 2
  /\ Len(events) = 2
  /\ sysclock > application_start

C6_Reached ==
  /\ pc = "ret" /\ call.op = "SetTimeStretching"
  /\ pre.mode = CUSTOM_CLOCK
  /\ mode = STRETCHED_SYSTEM_TIME
  /\ Len(pre.listeners) = 2
  /\ Len(Got("L1", "TimeModeChanged")) = 1
  /\ Len(Got("L2", "TimeModeChanged")) = 1

\* C11: a SetApplicationTime of a clock that is not the active one (it was
\* superseded by a later SetTimeSource), or while the mode is not
\* CUSTOM_CLOCK, leaves current time, mode, active clock, the four words and
\* the listener list as they were and makes no callback
C11_InactivePushIsNoOp ==
  (pc = "ret" /\ call.op = "SetApplicationTime"
     /\ (call.clock # pre.current_clock \/ pre.mode # CUSTOM_CLOCK)) =>
    /\ Snapshot = pre
    /\ events = <<>>

C11_Reached ==
  /\ pc = "ret" /\ call.op = "SetApplicationTime"
  /\ call.clock = pre.current_clock
  /\ pre.mode = STRETCHED_SYSTEM_TIME
  /\ call.t # pre.current_time
  /\ Len(pre.listeners) = 2

\* C12: when SetTimeSource(NULL, _) returns, the mode is
\* STRETCHED_SYSTEM_TIME whatever it was, and the four words of the
\* Parameter Store are the ones the call found
C12_BackToStretched ==
  (pc = "ret" /\ call.op = "SetTimeSource" /\ call.clock = NULL) =>
    /\ mode = STRETCHED_SYSTEM_TIME
    /\ StoreBits = pre.words

C12_Reached ==
  /\ pc = "ret" /\ call.op = "SetTimeSource" /\ call.clock = NULL
  /\ pre.mode = CUSTOM_CLOCK
  /\ pubs > 0
  /\ pre.words[1] # Bits(InitialWord)

\* C13: SetTimeStretching(n, d) with n = 0, d = 0, n > 1000000 or
\* d > 1000000 returns with mode, words, active clock, current time and
\* listener list as they were, without having taken the lock and without a
\* callback
C13_OutOfRangeRejected ==
  (pc = "ret" /\ call.op = "SetTimeStretching"
     /\ (call.n = 0 \/ call.d = 0 \/ call.n > 1000000 \/ call.d > 1000000)) =>
    /\ Snapshot = pre
    /\ events = <<>>
    /\ lock # self
    /\ local = NoLocal

C13_Reached ==
  /\ pc = "ret" /\ call.op = "SetTimeStretching"
  /\ call.d > 1000000
  /\ pre.mode = CUSTOM_CLOCK
  /\ Len(pre.listeners) = 2
  /\ lock = FREE

\* the callbacks of one kind the call made, and the listeners they were
\* made on, in order
Pass(kind) == SelectSeq(events, LAMBDA e : e.kind = kind)

PassListeners(kind) == [i \in 1..Len(Pass(kind)) |-> Pass(kind)[i].l]

\* C14: listeners are in the list in the order of their construction, and
\* each notification pass of a call (TimeModeChanged, then TimeChanged or
\* TimeStretchingFactorChanged) has made its callback on the listeners of
\* the list in that order, once on each, by the time the call returns
C14_NotificationOrder ==
  /\ (pc = "ret" /\ call.op = "Construct") => listeners = Append(pre.listeners, call.l)
  /\ (pc = "ret" /\ call.op \in {"SetTimeSource", "SetTimeStretching", "SetApplicationTime"}) =>
       /\ \A kind \in {"TimeModeChanged", "TimeChanged", "TimeStretchingFactorChanged"} :
            PassListeners(kind) \in {<<>>, pre.listeners}
       /\ events = Pass("TimeModeChanged") \o Pass("TimeChanged")
                     \o Pass("TimeStretchingFactorChanged")

C14_Reached ==
  /\ pc = "ret" /\ call.op = "SetTimeSource"
  /\ pre.listeners = <<"L2", "L1">>
  /\ PassListeners("TimeModeChanged") = <<"L2", "L1">>
  /\ PassListeners("TimeChanged") = <<"L2", "L1">>

\* C15: whatever the interleaving of the mutating threads, the listeners a
\* call has made callbacks on are in the list (their destructor has not
\* removed them) for as long as the call is in progress
C15_NoCallbackOnDestroyed ==
  \A t \in Mutators :
    \A i \in 1..Len(PositionOf(t).events) : IsRegistered(PositionOf(t).events[i].l)

C15_Reached ==
  /\ self = "m" /\ pc = "idle"
  /\ parked["w"].pc = "ret" /\ parked["w"].call.op = "SetTimeStretching"
  /\ Len(parked["w"].events) = 2
  /\ lock = "w"

\* the mutating thread t is inside a try block that holds the lock_guard
InSection(t) ==
  /\ PositionOf(t).pc \notin {"idle", "sd_load"}
  /\ \/ PositionOf(t).call.op \in {"SetTimeSource", "SetApplicationTime", "Construct", "Destroy"}
     \/ /\ PositionOf(t).call.op = "SetTimeStretching"
        /\ PositionOf(t).call.n \in 1..1000000
        /\ PositionOf(t).call.d \in 1..1000000

\* C17: no two mutating threads are inside a lock-protected section at the
\* same time, and a thread that is in StoreParameters owns the mutex
C17_WritersSerialized ==
  /\ \A t1, t2 \in Mutators : (InSection(t1) /\ InSection(t2)) => t1 = t2
  /\ \A t \in Mutators : InSection(t) => lock = t
  /\ \A t \in Mutators :
       PositionOf(t).pc \in {"st_store1", "st_store2", "st_store3", "st_store4"} => lock = t

C17_Reached ==
  /\ self = "m" /\ pc = "ret" /\ call.op = "SetTimeStretching" /\ lock = "w"
  /\ parked["w"].pc = "st_store3"

\* C16: once tTimeMutex is torn down, SetTimeSource, SetTimeStretching with
\* arguments in range, SetApplicationTime and the construction and the
\* destruction of a listener return with mode, active clock, current time,
\* the four words and the listener list as they were, and make no callback;
\* once the listener list is torn down, no call makes a callback
C16_TornDownIsNoOp ==
  /\ (pc = "ret" /\ InSection(self) /\ MutexThrows) =>
       /\ Snapshot = pre
       /\ events = <<>>
       /\ lock = FREE
  /\ (pc = "ret" /\ ListThrows) => events = <<>>

C16_Reached ==
  /\ pc = "ret" /\ call.op = "SetTimeSource" /\ call.clock # NULL
  /\ "tTimeMutex" \in destroyed
  /\ "tListenersSingleton" \notin destroyed
  /\ pre.mode = STRETCHED_SYSTEM_TIME
  /\ call.t # pre.current_time
  /\ Len(pre.listeners) = 1

\* the count of a duration below 2 ^ 22 in magnitude, as an integer
IsSmall(duration) == \A i \in 3..Len(duration.mag) : duration.mag[i] = 0

CountOf(duration) ==
  (IF duration.neg THEN -1 ELSE 1) * (duration.mag[1] + Digit * duration.mag[2])

\* the call is a ToSystemDuration
Converting == pc # "idle" /\ call.op = "ToSystemDuration"

\* C18: in STRETCHED_SYSTEM_TIME mode with the ratio n/d in the Parameter
\* Store, ToSystemDuration(x) returns x * d / n rounded to an integer (the
\* system-time interval in which application time advances by x)
C18_StretchedDuration ==
  (Converting /\ mode = STRETCHED_SYSTEM_TIME /\ IsSmall(call.app_duration)
     /\ GetStamp(time_stretching_parameters1, time_stretching_parameters2) # -1) =>
    LET n == time_stretching_parameters1.scale
        d == time_stretching_parameters2.scale
        x == CountOf(call.app_duration)
        y == CountOf(result.v)
    IN  /\ pc = "ret"
        /\ result.defined
        /\ IsSmall(result.v)
        /\ y * n - x * d \in (1 - n)..(n - 1)

\* C19: in SYSTEM_TIME and in CUSTOM_CLOCK mode ToSystemDuration(x) returns
\* x, whatever x and whatever the Parameter Store holds
C19_IdentityDuration ==
  (Converting /\ mode \in {SYSTEM_TIME, CUSTOM_CLOCK}) =>
    /\ pc = "ret"
    /\ result = [defined |-> TRUE, v |-> call.app_duration]

C19_Reached ==
  /\ Converting /\ mode = CUSTOM_CLOCK
  /\ call.app_duration.neg
  /\ ~IsSmall(call.app_duration)
  /\ time_stretching_parameters1.scale = 1
  /\ time_stretching_parameters2.scale = 2

\* scales allowed by SetTimeStretching, around 2 ^ 19
ScaleValues == {1, 2, 2 ^ 19, 2 ^ 19 + 1, MaxScale}

C21_SystemTimeIsIdentity ==
  /\ mode = SYSTEM_TIME /\ ToApplicationTime(sysclock) = [ok |-> TRUE, v |-> sysclock]
  /\ [][mode' # mode => \/ call.op \in {"SetTimeSource", "SetTimeStretching"}
                        \/ call'.op \in {"SetTimeSource", "SetTimeStretching"}]_vars
  /\ [](mode = SYSTEM_TIME =>
          \A system_time \in SysTimes :
            ToApplicationTime(system_time) = [ok |-> TRUE, v |-> system_time])

C21_Reached ==
  /\ mode = SYSTEM_TIME
  /\ sysclock > application_start
  /\ pc = "ret" /\ call.op = "SetTimeStretching"
  /\ ToApplicationTime(sysclock).v = sysclock
  /\ AtomicLoad(current_time) # sysclock

\* a call of the codec has come to its return
Returned(op) == pc = "ret" /\ call.op = op

\* whether s starts with a date and time of the form YYYY-MM-DDTHH:MM:SS
MatchesDateTime(s) ==
  LET form == <<"d", "d", "d", "d", "-", "d", "d", "-", "d", "d", "T", "d", "d", ":", "d", "d",
          ":", "d", "d">>
  IN  /\ Len(s) >= Len(form)
      /\ \A i \in 1..Len(form) : IF form[i] = "d" THEN IsDigit(s[i]) ELSE s[i] = form[i]

\* C22: ParseIsoTimestamp signals a parse error for every text whose date
\* and time do not have the form YYYY-MM-DDTHH:MM:SS, and returns no
\* timestamp for it
C22_MalformedTimestampThrows ==
  (Returned("ParseIsoTimestamp") /\ ~MatchesDateTime(call.s)) => result.thrown

\* the instant seconds later than x
Later(x, seconds) ==
  [days |-> AddSeconds([days |-> x.days, secs |-> x.secs], seconds).days,
   secs |-> AddSeconds([days |-> x.days, secs |-> x.secs], seconds).secs,
   ns |-> x.ns]

\* C23: for every fraction of 0 .. 9 digits and every offset of whole or half
\* hours, east or west, the text with the offset parses to the instant of
\* the text with 'Z' in its place, less the offset
C23_OffsetShiftsInstant ==
  Returned("ParseIsoTimestamp") =>
    \A base \in DateTimes, fraction \in FractionTexts, offset \in OffsetTable :
      call.s = base \o fraction \o offset.text =>
        result = [thrown |-> FALSE,
                  v |-> Later(ParseIsoTimestamp(base \o fraction \o <<"Z">>).v,
                              -offset.seconds)]

Units == {"Y", "M", "D", "H", "S"}

\* the defects of a duration text: it is empty or does not start with 'P';
\* a run of digits is followed by no unit letter; an H or S field stands
\* before every 'T'; a character is neither a digit, nor a unit letter
\* behind a digit, nor 'T'
Defective(s) ==
  \/ Len(s) = 0
  \/ s[1] # "P"
  \/ \E i \in 2..Len(s) : IsDigit(s[i]) /\ ~IsDigit(At(s, i + 1)) /\ At(s, i + 1) \notin Units
  \/ \E i \in 2..Len(s) :
       s[i] \in {"H", "S"} /\ IsDigit(s[i - 1]) /\ \A j \in 1..(i - 1) : s[j] # "T"
  \/ \E i \in 2..Len(s) :
       ~IsDigit(s[i]) /\ s[i] # "T" /\ ~(s[i] \in Units /\ IsDigit(s[i - 1]))

\* C24 as stated: ParseIsoDuration throws for the texts with a defect, and
\* for these only
C24_DefectiveDurationThrows ==
  Returned("ParseIsoDuration") => (result.thrown <=> Defective(call.s))

RECURSIVE DigitsBefore(_, _)
\* the number of digits that end at position i of s
DigitsBefore(s, i) == IF i >= 1 /\ IsDigit(s[i]) THEN 1 + DigitsBefore(s, i - 1) ELSE 0

\* s without the fraction of its seconds: the '.' and the digits, if any,
\* between it and a final 'S'
WithoutFraction(s) ==
  IF Len(s) < 2 \/ s[Len(s)] # "S" THEN s
  ELSE LET dot == Len(s) - 1 - DigitsBefore(s, Len(s) - 1)
       IN  IF At(s, dot) = "." THEN SubSeq(s, 1, dot - 1) \o <<"S">> ELSE s

\* C24: ParseIsoDuration throws for the texts that have a defect apart from
\* the fraction of the seconds ('.' and digits before a final 'S'), and for
\* these only
C24_DefectOutsideFractionThrows ==
  Returned("ParseIsoDuration") => (result.thrown <=> Defective(WithoutFraction(call.s)))

C24_Reached ==
  /\ Returned("ParseIsoDuration")
  /\ call.s = <<"P", "T", "1", ".", "1", "S">>
  /\ result = [thrown |-> FALSE, v |-> [days |-> 0, secs |-> 1, ns |-> 100000000]]

\* texts that ToIsoString writes
NormalizedTexts ==
  {<<"P">>, <<"P", "1", "Y", "3", "5", "D">>, <<"P", "T", "5", "3", "M", "5", "5", ".", "0", "2",
          "5", "S">>, <<"P", "T", "0", ".", "1", "4", "1", "4", "1", "4",
          "S">>} \cup {DayText(n) : n \in 1..364}

\* C25: ParseIsoDuration reads the text of ToIsoString(d) as d, for every
\* duration d, and ToIsoString writes the duration of a normalized text as
\* that text
C25_DurationRoundTrip ==
  /\ Returned("ToIsoString(tDuration)") =>
       ParseIsoDuration(result.v) = [thrown |-> FALSE, v |-> call.x]
  /\ (Returned("ParseIsoDuration") /\ call.s \in NormalizedTexts) =>
       (~result.thrown /\ ToIsoStringOfDuration(result.v) = call.s)

RECURSIVE DaysOfYears(_, _)
\* the days of the count years from year on
DaysOfYears(year, count) ==
  IF count = 0 THEN 0
  ELSE (IF IsLeap(year) THEN 366 ELSE 365) + DaysOfYears(year + 1, count - 1)

\* the days of the first n months of year
DaysOfMonths(year, n) ==
  LET lengths == <<31, IF IsLeap(year) THEN 29 ELSE 28, 31, 30, 31, 30, 31, 31, 30, 31, 30, 31>>
      total[k \in 0..12] == IF k = 0 THEN 0 ELSE total[k - 1] + lengths[k]
  IN  total[n]

\* C26: nM before 'T' adds the days of the first n months of the year
\* 1970 + Y, nM behind 'T' adds n minutes, P1Y2M4DT3H43.22S is written
\* back as P1Y63DT3H43.220S, and ToIsoString writes no 'M' before 'T'
C26_MonthsFoldIntoDays ==
  /\ Returned("ParseIsoDuration") =>
       /\ \A y \in 0..MaxYears, n \in 0..12, d \in {0, 4, 30} :
            call.s = MonthText(y, n, d) =>
              result = [thrown |-> FALSE,
                        v |-> [days |-> DaysOfYears(1970, y) + DaysOfMonths(1970 + y, n) + d,
                               secs |-> 0, ns |-> 0]]
       /\ \A n \in {0, 2}, m \in {0, 43, 90} :
            call.s = MinuteText(n, m) =>
              result = [thrown |-> FALSE,
                        v |-> [days |-> DaysOfMonths(1970, n), secs |-> 60 * m, ns |-> 0]]
       /\ call.s = <<"P", "1", "Y", "2", "M", "4", "D", "T", "3", "H", "4", "3", ".", "2", "2",
               "S">> =>
            ToIsoStringOfDuration(result.v) = <<"P", "1", "Y", "6", "3", "D", "T", "3", "H", "4",
                    "3", ".", "2", "2", "0", "S">>
  /\ Returned("ToIsoString(tDuration)") =>
       \A i \in 1..Len(result.v) :
         result.v[i] = "M" => \E j \in 1..(i - 1) : result.v[j] = "T"

C26_Reached ==
  /\ Returned("ParseIsoDuration")
  /\ call.s = MonthText(2, 2, 4)
  /\ result.v.days = 794

RECURSIVE YearAndDay(_, _)
\* the years from year on that n days fill, and the days left over
YearAndDay(year, n) ==
  IF n < (IF IsLeap(year) THEN 366 ELSE 365) THEN [years |-> year - 1970, days |-> n]
  ELSE YearAndDay(year + 1, n - (IF IsLeap(year) THEN 366 ELSE 365))

\* n and the unit, if n is not zero
Field(n, unit) == IF n # 0 THEN Stream(n) \o <<unit>> ELSE <<>>

\* C27: P<N>D is N days of 86400 s for every N >= 0, and ToIsoString
\* writes N whole days as the years k that 1 Jan 1970 + N days lies behind
\* 1970 and its day m of the year counted from zero, kY and mD; 400 days
\* are P1Y35D
C27_CalendarYears ==
  /\ Returned("ParseIsoDuration") =>
       \A n \in 0..MaxDays :
         call.s = DayText(n) =>
           result = [thrown |-> FALSE, v |-> [days |-> n, secs |-> 0, ns |-> 0]]
  /\ (Returned("ToIsoString(tDuration)") /\ call.x.days >= 0 /\ call.x.secs = 0
        /\ call.x.ns = 0) =>
       /\ result.v = <<"P">> \o Field(YearAndDay(1970, call.x.days).years, "Y")
                        \o Field(YearAndDay(1970, call.x.days).days, "D")
       /\ call.x.days = 400 => result.v = <<"P", "1", "Y", "3", "5", "D">>

C27_Reached ==
  /\ Returned("ToIsoString(tDuration)")
  /\ call.x = [days |-> 1096, secs |-> 0, ns |-> 0]
  /\ result.v = <<"P", "3", "Y">>

\* C28: ToIsoString(duration) writes 'P', the years and the day of the year
\* each if not zero, then 'T' if one of hour, minute, second and nanosecond
\* is not zero, behind it hours and minutes each if not zero and the seconds
\* if second or nanosecond is not zero; zero is P, 3235 s + 25 ms is
\* PT53M55.025S
C28_FieldsOnlyIfNonZero ==
  Returned("ToIsoString(tDuration)") =>
    LET t == GmtimeR(Truncated(call.x).tt)
        ns == Truncated(call.x).rest
        Has(ch) == \E i \in 1..Len(result.v) : result.v[i] = ch
    IN  /\ result.v[1] = "P"
        /\ Has("Y") <=> t.tm_year # 70
        /\ Has("D") <=> t.tm_yday # 0
        /\ Has("T") <=> (t.tm_hour # 0 \/ t.tm_min # 0 \/ t.tm_sec # 0 \/ ns # 0)
        /\ Has("H") <=> t.tm_hour # 0
        /\ Has("M") <=> t.tm_min # 0
        /\ Has("S") <=> (t.tm_sec # 0 \/ ns # 0)
        /\ result.v = <<"P">> \o Field(t.tm_year - 70, "Y") \o Field(t.tm_yday, "D")
                        \o (IF Has("T") THEN <<"T">> ELSE <<>>)
                        \o Field(t.tm_hour, "H") \o Field(t.tm_min, "M")
                        \o (IF Has("S")
                            THEN Stream(t.tm_sec) \o SubSeconds(ns) \o <<"S">> ELSE <<>>)
        /\ call.x = ZeroNanos => result.v = <<"P">>
        /\ call.x = [days |-> 0, secs |-> 3235, ns |-> 25000000] =>
             result.v = <<"P", "T", "5", "3", "M", "5", "5", ".", "0", "2", "5", "S">>

C28_Reached ==
  /\ Returned("ToIsoString(tDuration)")
  /\ call.x = [days |-> 0, secs |-> 3235, ns |-> 25000000]
  /\ result.v = <<"P", "T", "5", "3", "M", "5", "5", ".", "0", "2", "5", "S">>

\* the digits behind the '.' of text, if it has one
FractionOf(text) ==
  LET dot == Strchr(text, 1, ".")
  IN  IF dot = 0 THEN <<>> ELSE SubSeq(text, dot + 1, dot + DigitRun(text, dot + 1, Len(text)))

\* C29: with ns the nanoseconds above the whole seconds, 0 .. 10^9 - 1 (for
\* an instant before 1970 above the second below it, which is the second
\* written), both ToIsoString write a '.' only if ns is not zero: then 3
\* digits if ns is a multiple of 10^6, else 6 if it is one of 10^3, else 9,
\* with leading zeros, that denote ns; 43 s + 123400 us is PT43.123400S
C29_FractionDigits ==
  (\/ Returned("ToIsoString(tTimestamp)")
   \/ Returned("ToIsoString(tDuration)") /\ call.x.days >= 0) =>
    LET digits == FractionOf(result.v)
        ns == call.x.ns
    IN  /\ (Strchr(result.v, 1, ".") # 0) <=> ns # 0
        /\ ns # 0 =>
             /\ Len(digits) = IF ns % 1000000 = 0 THEN 3 ELSE IF ns % 1000 = 0 THEN 6 ELSE 9
             /\ Atoi(digits, 1) * 10 ^ (9 - Len(digits)) = ns
        /\ call.op = "ToIsoString(tTimestamp)" =>
             SubSeq(result.v, 1, 19)
               = StrftimeFT(LocaltimeR([days |-> call.x.days, secs |-> call.x.secs],
                                       call.gmtoff))
        /\ (call.op = "ToIsoString(tDuration)"
              /\ call.x = [days |-> 0, secs |-> 43, ns |-> 123400000]) =>
             result.v = <<"P", "T", "4", "3", ".", "1", "2", "3", "4", "0", "0", "S">>

C29_Reached ==
  /\ Returned("ToIsoString(tTimestamp)")
  /\ call.x = [days |-> -1, secs |-> 86399, ns |-> 141414000]
  /\ call.gmtoff = 0
  /\ result.v = <<"1", "9", "6", "9", "-", "1", "2", "-", "3", "1", "T", "2", "3", ":", "5", "9",
          ":", "5", "9", ".", "1", "4", "1", "4", "1", "4", "+", "0", "0", ":", "0", "0">>

\* C30: ParseIsoTimestamp reads the text of ToIsoString(t) as t, for every
\* t of whole microseconds and every local time a whole or half hour from UTC
C30_TimestampRoundTrip ==
  (Returned("ToIsoString(tTimestamp)") /\ call.x.ns % 1000 = 0 /\ call.gmtoff % 1800 = 0) =>
    ParseIsoTimestamp(result.v) = [thrown |-> FALSE, v |-> call.x]

C30_Reached ==
  /\ Returned("ToIsoString(tTimestamp)")
  /\ call.x = [days |-> 16164, secs |-> 51254, ns |-> 141414000]
  /\ call.gmtoff = -12600
  /\ result.v = <<"2", "0", "1", "4", "-", "0", "4", "-", "0", "4", "T", "1", "0", ":", "4", "4",
          ":", "1", "4", ".", "1", "4", "1", "4", "1", "4", "-", "0", "3", ":", "3", "0">>
  /\ ParseIsoTimestamp(result.v).v = call.x

\* ------------------------------------------------ claims on the store words

\* one of the four stores of StoreParameters is still to be made
StoreInProgress == pc \in {"st_store1", "st_store2", "st_store3", "st_store4"}

\* C31: the two words a StoreParameters call builds carry the same stamp,
\* the counter after its increment, next to the scale they were given; and
\* whenever no StoreParameters is in progress the primary pair equals the
\* copy pair and GetStamp is not -1 on either
C31_WordsWellFormed ==
  /\ pc = "st_store1" =>
       /\ local.h0.stamp = counter /\ local.h1.stamp = counter
       /\ local.h0.scale = call.n /\ local.h1.scale = call.d
  /\ ~StoreInProgress =>
       /\ Bits(time_stretching_parameters1) = Bits(time_stretching_parameters1_copy)
       /\ Bits(time_stretching_parameters2) = Bits(time_stretching_parameters2_copy)
       /\ GetStamp(time_stretching_parameters1, time_stretching_parameters2) # -1
       /\ GetStamp(time_stretching_parameters1_copy, time_stretching_parameters2_copy) # -1

\* C32: in every state, between the four stores of StoreParameters too, the
\* two words of the primary pair or the two words of the copy pair carry
\* equal stamps
C32_OnePairConsistent ==
  \/ GetStamp(time_stretching_parameters1, time_stretching_parameters2) # -1
  \/ GetStamp(time_stretching_parameters1_copy, time_stretching_parameters2_copy) # -1

\* C33: LoadParameters run after a StoreParameters call, with no store in
\* between, returns the numerator and the denominator the call was given
C33_ScaleRoundTrip ==
  (pc = "st_mode" /\ LoadParameters.ok) =>
    /\ LoadParameters.params.time_scaling_numerator = call.n
    /\ LoadParameters.params.time_scaling_denominator = call.d

\* ------------------------------------ the two words of one call, bit by bit

\* a 64-bit integer as four 16-bit limbs, the most significant first; an
\* int64_t is the two's complement of its value
RECURSIVE OrBits(_, _, _)
\* a | b on the k low bits
OrBits(a, b, k) ==
  IF k = 0 THEN 0
  ELSE (IF a % 2 = 1 \/ b % 2 = 1 THEN 1 ELSE 0) + 2 * OrBits(a \div 2, b \div 2, k - 1)

BitOr(x, y) == [i \in 1..4 |-> OrBits(x[i], y[i], 16)]

\* x >> 32 of an int64_t: the sign fills bits 32..63
ShiftRight32(x) ==
  LET sign == IF x[1] >= Limb \div 2 THEN Limb - 1 ELSE 0
  IN  <<sign, sign, x[1], x[2]>>

\* x >> 32 of a uint64_t
UnsignedShiftRight32(x) == <<0, 0, x[1], x[2]>>

\* x << 32
ShiftLeft32(x) == <<x[3], x[4], 0, 0>>

\* x & 0xFFFFFFFFLL
Mask32(x) == <<0, 0, x[3], x[4]>>

\* counter << 52
CounterField(cnt) == <<cnt * 16, 0, 0, 0>>

\* static_cast<int64_t>(scale) << 32
ScaleField(scale) == <<scale \div Limb, scale % Limb, 0, 0>>

\* longs[i] >> 52
StampOf(x) == x[1] \div 16

\* helper.longs[0] and helper.longs[1] of StoreParameters
Longs0(cnt, numerator, diff) ==
  BitOr(BitOr(CounterField(cnt), ScaleField(numerator)), ShiftRight32(diff))

Longs1(cnt, denominator, diff) ==
  BitOr(BitOr(CounterField(cnt), ScaleField(denominator)), Mask32(diff))

\* (longs[i] >> 32) && cNUMERATOR_MASK
ScaleOf(x) ==
  IF UnsignedShiftRight32(x) # <<0, 0, 0, 0>> /\ cNUMERATOR_MASK # 0 THEN 1 ELSE 0

\* TimeDiffOf without the mask on longs[1]
TimeDiffOfUnmasked(longs0, longs1) == BitOr(ShiftLeft32(longs0), longs1)

\* (helper.longs[0] << 32) | (helper.longs[1] & 0xFFFFFFFFLL)
TimeDiffOf(longs0, longs1) == BitOr(ShiftLeft32(longs0), Mask32(longs1))

\* StoreParameters(params) with the static counter at cnt, then
\* LoadParameters with no store in between: the two words, whether the
\* retry loop ends (the stamps of the two words are equal), and what the
\* three assignments after the loop yield from the two words
StoreThenLoad(cnt, numerator, denominator, diff) ==
  LET longs0 == Longs0(NextCounter(cnt), numerator, diff)
      longs1 == Longs1(NextCounter(cnt), denominator, diff)
  IN  [longs |-> <<longs0, longs1>>,
       returns |-> StampOf(longs0) = StampOf(longs1),
       time_scaling_numerator |-> ScaleOf(longs0),
       time_scaling_denominator |-> ScaleOf(longs1),
       time_diff |-> TimeDiffOf(longs0, longs1)]

\* values of the static counter before the call
WordCounters == {0, 1, cSTAMP_MASK - 1, cSTAMP_MASK}

WordScales == {1, 2, MaxScale}

\* time_diff counts: 0, 1, -1, -4, 2^31, -2^31 - 1, 2^32, -2^32, 2^63 - 1,
\* -2^63, 0x0123456789ABCDEF and 0xFEDCBA9876543210
WordDiffs ==
  {<<0, 0, 0, 0>>, <<0, 0, 0, 1>>, <<65535, 65535, 65535, 65535>>,
   <<65535, 65535, 65535, 65532>>, <<0, 0, 32768, 0>>, <<65535, 65535, 32767, 65535>>,
   <<0, 1, 0, 0>>, <<65535, 65535, 0, 0>>, <<32767, 65535, 65535, 65535>>,
   <<32768, 0, 0, 0>>, <<291, 17767, 35243, 52719>>, <<65244, 47768, 30292, 12816>>}

\* a call StoreParameters followed by LoadParameters
StoreThenLoadCall(cnt, numerator, denominator, diff) ==
  /\ Enter([NoCall EXCEPT !.op = "StoreParameters", !.counter = cnt, !.n = numerator,
                          !.d = denominator, !.time_diff = diff])
  /\ events' = <<>>
  /\ pc' = "ret"
  /\ result' = [defined |-> TRUE, v |-> StoreThenLoad(cnt, numerator, denominator, diff)]
  /\ UNCHANGED <<store, engine, sysclock, local, pubs, pushed, ld, rd, lock>>

WordNext ==
  \/ pc = "idle" /\ \E cnt \in WordCounters, numerator \in WordScales,
                       denominator \in WordScales, diff \in WordDiffs :
                      StoreThenLoadCall(cnt, numerator, denominator, diff)
  \/ Return

WordSpec == Init /\ [][WordNext]_vars

\* C34: the time_diff the last assignment of LoadParameters builds from the
\* two words of one StoreParameters call is the time_diff the call was
\* given, whatever its sign and size
C34_TimeDiffRoundTrip ==
  Returned("StoreParameters") => result.v.time_diff = call.time_diff

\* a negative time_diff that LoadParameters returns: the stamp is 0xFFF
C34_Reached ==
  /\ Returned("StoreParameters")
  /\ call.time_diff = <<65244, 47768, 30292, 12816>>
  /\ call.counter = cSTAMP_MASK - 1 /\ call.n = 2
  /\ result.v.returns
  /\ result.v.time_diff = call.time_diff

\* C35: the snapshot LoadParameters returns to any thread, whatever the
\* writer did in between its loads, has a numerator and a denominator of
\* at least 1
C35_ScaleNotZero ==
  \A t \in Threads :
    ld[t].at = "got" =>
      /\ Decode(ld[t].h0, ld[t].h1).time_scaling_numerator >= 1
      /\ Decode(ld[t].h0, ld[t].h1).time_scaling_denominator >= 1

\* a reader has got words of two different calls
C35_Reached ==
  \E t \in Readers :
    /\ ld[t].at = "got"
    /\ ld[t].h0.pub # ld[t].h1.pub
    /\ Decode(ld[t].h0, ld[t].h1).time_scaling_denominator = 1

\* the callbacks a notification pass over the listeners of list makes
ModePass(list, m) == [i \in 1..Len(list) |-> Event(list[i], "TimeModeChanged", 0, m, FALSE)]

TimePass(list, t) == [i \in 1..Len(list) |-> Event(list[i], "TimeChanged", t, "", FALSE)]

\* C36: a SetTimeSource(c, t) that changes the mode has made the
\* TimeModeChanged(CUSTOM_CLOCK) callback on every listener before the first
\* TimeChanged(t) callback, and a SetTimeStretching that changes the mode has
\* made TimeModeChanged(STRETCHED_SYSTEM_TIME) on every listener before the
\* first TimeStretchingFactorChanged; no callback is made before the current
\* time or the four words are stored, and the mode is stored by the time the
\* passes are over
C36_ModePassFirst ==
  /\ (Returned("SetTimeSource") /\ call.clock # NULL /\ pre.mode # CUSTOM_CLOCK
        /\ ~MutexThrows /\ ~ListThrows) =>
       /\ events = ModePass(pre.listeners, CUSTOM_CLOCK) \o TimePass(pre.listeners, call.t)
       /\ mode = CUSTOM_CLOCK
       /\ current_time = AtomicStore(call.t)
  /\ (Returned("SetTimeStretching") /\ pre.mode # STRETCHED_SYSTEM_TIME
        /\ events # <<>>) =>
       /\ SubSeq(events, 1, Len(pre.listeners))
            = ModePass(pre.listeners, STRETCHED_SYSTEM_TIME)
       /\ Len(events) = 2 * Len(pre.listeners)
       /\ \A i \in Len(pre.listeners) + 1..Len(events) :
            /\ events[i].kind = "TimeStretchingFactorChanged"
            /\ events[i].l = pre.listeners[i - Len(pre.listeners)]
       /\ mode = STRETCHED_SYSTEM_TIME
       /\ StoreBits = <<Bits(local.h0), Bits(local.h1), Bits(local.h0), Bits(local.h1)>>
  /\ pc = "ts_mode" => (events = <<>> /\ current_time = AtomicStore(call.t))
  /\ (StoreInProgress \/ pc \in {"st_load", "st_mode"}) => events = <<>>
  /\ pc = "st_mode" =>
       StoreBits = <<Bits(local.h0), Bits(local.h1), Bits(local.h0), Bits(local.h1)>>

C36_Reached ==
  /\ Returned("SetTimeStretching")
  /\ pre.mode = CUSTOM_CLOCK
  /\ Len(pre.listeners) = 2
  /\ Len(events) = 4
  /\ events[2].kind = "TimeModeChanged"
  /\ events[3].kind = "TimeStretchingFactorChanged"

\* C37: no step takes the mode from STRETCHED_SYSTEM_TIME or CUSTOM_CLOCK to
\* SYSTEM_TIME, and the step of a SetApplicationTime call leaves the mode as
\* it is
C37_NeverBackToSystemTime ==
  [][/\ mode # SYSTEM_TIME => mode' # SYSTEM_TIME
     /\ call'.op = "SetApplicationTime" => mode' = mode]_vars

\* a push on the active clock that made its callbacks
C37_Reached ==
  /\ Returned("SetApplicationTime")
  /\ pre.mode = CUSTOM_CLOCK /\ mode = CUSTOM_CLOCK
  /\ call.clock = current_clock
  /\ events # <<>>

RECURSIVE FractionNanos(_, _)
\* the nanoseconds the digits of a fraction denote from the i-th on, the
\* i-th digit counting 10^(9 - i) and no digit behind the ninth counting
FractionNanos(digits, i) ==
  IF i > Len(digits) \/ i > 9 THEN 0
  ELSE DigitValue(digits[i]) * 10 ^ (9 - i) + FractionNanos(digits, i + 1)

\* C38: both parsers read a fraction of k digits as that many nanoseconds
\* as the digits denote left-aligned in nine places, the digits behind the
\* ninth left aside, and no fraction as 0; PT43.1234S is written back as
\* PT43.123400S
C38_FractionRead ==
  /\ (Returned("ParseIsoTimestamp") /\ MatchesDateTime(call.s)) =>
       result.v.ns = IF At(call.s, 20) = "." THEN FractionNanos(FractionOf(call.s), 1) ELSE 0
  /\ (Returned("ParseIsoDuration") /\ ~result.thrown) =>
       result.v.ns = FractionNanos(FractionOf(call.s), 1)
  /\ (Returned("ParseIsoDuration")
        /\ call.s = <<"P", "T", "4", "3", ".", "1", "2", "3", "4", "S">>) =>
       ToIsoStringOfDuration(result.v)
         = <<"P", "T", "4", "3", ".", "1", "2", "3", "4", "0", "0", "S">>

C38_Reached ==
  /\ Returned("ParseIsoDuration")
  /\ call.s = <<"P", "T", "4", "3", ".", "1", "0", "3", "4", "5", "6", "7", "8", "9", "8", "7",
          "6", "S">>
  /\ result = [thrown |-> FALSE, v |-> [days |-> 0, secs |-> 43, ns |-> 103456789]]

\* <n> and the unit, with an 's' for more than one
Counted(n, unit) == Stream(n) \o <<" ">> \o unit \o (IF n > 1 THEN <<"s">> ELSE <<>>)

\* the text of a duration above zero in the coarsest unit that is exact
CoarsestUnitText(x) ==
  LET s == WholeSeconds(x)
  IN  IF x.ns # 0
      THEN Stream(s * 1000 + x.ns \div 1000000) \o <<".">>
             \o (IF x.ns % 1000 = 0 THEN ZeroPadded(3, (x.ns % 1000000) \div 1000)
                 ELSE ZeroPadded(6, x.ns % 1000000))
             \o <<" ", "m", "s">>
      ELSE IF s % 3600 = 0 THEN Counted(s \div 3600, <<"h", "o", "u", "r">>)
           ELSE IF s % 60 = 0 THEN Counted(s \div 60, <<"m", "i", "n", "u", "t", "e">>)
                ELSE Stream(s) \o <<" ", "s">>

\* C39: ToString writes "0 ms" for zero, whole hours as hours, else whole
\* minutes as minutes, else whole seconds as seconds, and only a value with
\* a part below the second in milliseconds, with 3 digits behind the point
\* for whole microseconds and 6 otherwise; a value below zero is written as
\* '-' and the text of its magnitude
C39_CoarsestUnit ==
  Returned("ToString") =>
    result.v = IF call.x = ZeroNanos THEN <<"0", " ", "m", "s">>
               ELSE IF call.x.days < 0 THEN <<"-">> \o CoarsestUnitText(Negated(call.x))
                    ELSE CoarsestUnitText(call.x)

=============================================================================
